---------------------------- MODULE Spec2Model ----------------------------
(***************************************************************************)
(* A model of the Airbnb search client: src/python/airbnb_search.py        *)
(* (build_raw_params, search_page, fetch_live_hash, get_op_hash,           *)
(* search_from_url) and src/python/search_listings.py (search_listings).   *)
(*                                                                         *)
(* Python values are modelled as follows.                                  *)
(*   - A str is a tuple of one-character strings: "5.6" is <<"5",".","6">>.*)
(*     Parsing (int, float, strptime) and formatting (str of an int) are   *)
(*     computed character by character.                                    *)
(*   - None, where it can meet a str, is the tuple None == <<"None">>,     *)
(*     which is no str because "None" is not one character.                *)
(*   - A list is a tuple; a dict that the code reads only with .get is a   *)
(*     function whose absent keys hold the value .get would return.        *)
(*   - A str the code only passes on or tests for emptiness (a signature,  *)
(*     an api key, a cursor, a currency, a listing id) is a TLA+ string;   *)
(*     there None is "None" and the empty str is "".                       *)
(***************************************************************************)
EXTENDS Integers, Sequences, FiniteSets, TLC

VARIABLES
    qs,             \* build_raw_params: the parsed query string (its argument)
    built,          \* build_raw_params: outcome of the call, NotCalled before it
    cached_hash,    \* the module global _cached_hash
    hashFetches,    \* history: number of fetch_live_hash calls in this process
    hashReturns,    \* history: the values get_op_hash returned, in call order
    scan,           \* history: the last fetch_live_hash call (its page, what it fetched)
    pc,             \* search_from_url: "idle", "paging" (in the while loop), "done"
    searches,       \* history: number of search_from_url calls started
    arg_hash,       \* search_from_url: the op_hash argument
    op_hash,        \* search_from_url: the local op_hash
    api_key,        \* search_from_url: the local api_key
    keyFetches,     \* history: get_api_key calls of the current search
    cursor,         \* search_from_url: the local cursor
    page,           \* search_from_url: the local page
    all_results,    \* search_from_url: the local all_results
    requests,       \* history: the requests search_page posted in this search
    responses,      \* history: what the upstream answered to each of them
    outcome,        \* search_from_url: how the call ended (returned list / raised)
    tpc,            \* concurrent get_op_hash callers: where each caller is
    tret,           \* concurrent get_op_hash callers: what each caller returned
    params,         \* search_listings: its argument
    found,          \* search_listings: what the search call of its path gave
    formatted,
    zoom_handed,    \* search_listings: the zoom_value it gave pyairbnb.search_all, NoZoom without       \* search_listings: outcome of the call, NotCalled before it
    written,        \* main: what the output file holds, NoFile before a write
    exit_code,      \* main: the exit status of the process, "not_exited" before
    net,            \* fetch_live_hash alone: what the network answers during the call
    resolved        \* fetch_live_hash alone: what the call did, NotScanned before it

buildVars  == <<qs, built>>
cacheVars  == <<cached_hash, hashFetches, hashReturns, scan>>
searchVars == <<pc, searches, arg_hash, op_hash, api_key, keyFetches, cursor,
                page, all_results, requests, responses, outcome>>
threadVars == <<tpc, tret>>
listingVars == <<params, found, formatted, zoom_handed, written, exit_code>>
scanVars == <<net, resolved>>
vars == <<buildVars, cacheVars, searchVars, threadVars, listingVars, scanVars>>

(***************************************************************************)
(* Python strings                                                          *)
(***************************************************************************)
None == <<"None">>

Digits == {"0", "1", "2", "3", "4", "5", "6", "7", "8", "9"}

\* bool(v) of a value that is None or a str (used by `x and ...`, `if x:`)
Truthy(v) == v # None /\ v # <<>>

DigitVal(c) ==
    CASE c = "0" -> 0 [] c = "1" -> 1 [] c = "2" -> 2 [] c = "3" -> 3
      [] c = "4" -> 4 [] c = "5" -> 5 [] c = "6" -> 6 [] c = "7" -> 7
      [] c = "8" -> 8 [] c = "9" -> 9

DigitChar(d) ==
    CASE d = 0 -> "0" [] d = 1 -> "1" [] d = 2 -> "2" [] d = 3 -> "3"
      [] d = 4 -> "4" [] d = 5 -> "5" [] d = 6 -> "6" [] d = 7 -> "7"
      [] d = 8 -> "8" [] d = 9 -> "9"

AllDigits(s) == \A i \in 1..Len(s) : s[i] \in Digits

RECURSIVE DigitsVal(_)
DigitsVal(s) ==
    IF s = <<>> THEN 0
    ELSE 10 * DigitsVal(SubSeq(s, 1, Len(s) - 1)) + DigitVal(s[Len(s)])

RECURSIVE NatToStr(_)
NatToStr(n) ==
    IF n < 10 THEN <<DigitChar(n)>>
    ELSE NatToStr(n \div 10) \o <<DigitChar(n % 10)>>

\* str(n) of a Python int
IntToStr(n) == IF n < 0 THEN <<"-">> \o NatToStr(-n) ELSE NatToStr(n)

HasSign(s) == s # <<>> /\ s[1] \in {"-", "+"}
Unsigned(s) == IF HasSign(s) THEN Tail(s) ELSE s

\* int(s) of a str: an optional sign and one or more digits; anything else is
\* a ValueError (ok = FALSE).
ParseInt(s) ==
    LET u == Unsigned(s) IN
    IF u # <<>> /\ AllDigits(u)
    THEN [ok |-> TRUE,
          v  |-> IF HasSign(s) /\ s[1] = "-" THEN -DigitsVal(u) ELSE DigitsVal(u)]
    ELSE [ok |-> FALSE, v |-> 0]

DotAt(s) ==
    IF \E i \in 1..Len(s) : s[i] = "."
    THEN CHOOSE i \in 1..Len(s) : s[i] = "." /\ \A j \in 1..(i - 1) : s[j] # "."
    ELSE 0

\* float(s) of a str, kept exactly as sign, integer part and "has a non-zero
\* fraction": an optional sign, digits with at most one "." and at least one
\* digit; anything else is a ValueError (ok = FALSE).
ParseFloat(s) ==
    LET u  == Unsigned(s)
        d  == DotAt(u)
        ip == IF d = 0 THEN u ELSE SubSeq(u, 1, d - 1)
        fp == IF d = 0 THEN <<>> ELSE SubSeq(u, d + 1, Len(u))
    IN
    IF AllDigits(ip) /\ AllDigits(fp) /\ Len(ip) + Len(fp) > 0
    THEN [ok   |-> TRUE,
          neg  |-> HasSign(s) /\ s[1] = "-",
          ip   |-> DigitsVal(ip),
          frac |-> DigitsVal(fp) # 0]
    ELSE [ok |-> FALSE, neg |-> FALSE, ip |-> 0, frac |-> FALSE]

\* int(f) of a float: truncation toward zero
IntOfFloat(f) == IF f.neg THEN -f.ip ELSE f.ip

LowerLetters ==
    <<"a", "b", "c", "d", "e", "f", "g", "h", "i", "j", "k", "l", "m",
      "n", "o", "p", "q", "r", "s", "t", "u", "v", "w", "x", "y", "z">>
UpperLetters ==
    <<"A", "B", "C", "D", "E", "F", "G", "H", "I", "J", "K", "L", "M",
      "N", "O", "P", "Q", "R", "S", "T", "U", "V", "W", "X", "Y", "Z">>

LowerChar(c) ==
    IF \E i \in 1..26 : UpperLetters[i] = c
    THEN LowerLetters[CHOOSE i \in 1..26 : UpperLetters[i] = c] ELSE c

UpperChar(c) ==
    IF \E i \in 1..26 : LowerLetters[i] = c
    THEN UpperLetters[CHOOSE i \in 1..26 : LowerLetters[i] = c] ELSE c

\* s.lower(), s.upper()
Lower(s) == [i \in 1..Len(s) |-> LowerChar(s[i])]
Upper(s) == [i \in 1..Len(s) |-> UpperChar(s[i])]

\* sub in s
Contains(s, sub) ==
    \E i \in 1..(Len(s) - Len(sub) + 1) : SubSeq(s, i, i + Len(sub) - 1) = sub

\* a character \w matches
IsWordChar(c) ==
    c \in Digits \/ c = "_" \/ \E i \in 1..26 : LowerLetters[i] = c \/ UpperLetters[i] = c

\* a character \s matches
IsSpace(c) == c = " "

\* re.search(r'\b(w1|w2|...)\b', s, re.I) finds a match; the words are lower
\* case and made of word characters
ContainsWord(s, words) ==
    \E w \in words : \E i \in 1..(Len(s) - Len(w) + 1) :
        LET j == i + Len(w) - 1 IN
        /\ Lower(SubSeq(s, i, j)) = w
        /\ (i = 1 \/ ~IsWordChar(s[i - 1]))
        /\ (j = Len(s) \/ ~IsWordChar(s[j + 1]))

\* the end of the run of digits that starts at i
RECURSIVE DigitRunEnd(_, _)
DigitRunEnd(s, i) ==
    IF i < Len(s) /\ s[i + 1] \in Digits THEN DigitRunEnd(s, i + 1) ELSE i

\* re.search(r'(\d+)', s): the first run of digits, as [found, n]
FirstNumber(s) ==
    IF \E i \in 1..Len(s) : s[i] \in Digits
    THEN LET i == CHOOSE k \in 1..Len(s) :
                      s[k] \in Digits /\ \A m \in 1..(k - 1) : s[m] \notin Digits
         IN [found |-> TRUE, n |-> DigitsVal(SubSeq(s, i, DigitRunEnd(s, i)))]
    ELSE [found |-> FALSE, n |-> 0]

\* the position after the run of spaces that starts at i
RECURSIVE SkipSpaces(_, _)
SkipSpaces(s, i) ==
    IF i <= Len(s) /\ IsSpace(s[i]) THEN SkipSpaces(s, i + 1) ELSE i

\* a match of (\d+)\s*bed (re.I) starts at i, the start of a run of digits
BedMatchAt(s, i) ==
    /\ s[i] \in Digits
    /\ (i = 1 \/ s[i - 1] \notin Digits)
    /\ LET k == SkipSpaces(s, DigitRunEnd(s, i) + 1) IN
       k + 2 <= Len(s) /\ Lower(SubSeq(s, k, k + 2)) = <<"b", "e", "d">>

\* re.search(r'(\d+)\s*bed', s, re.I): the leftmost match, as [found, n]
BedNumber(s) ==
    IF \E i \in 1..Len(s) : BedMatchAt(s, i)
    THEN LET i == CHOOSE k \in 1..Len(s) :
                      BedMatchAt(s, k) /\ \A m \in 1..(k - 1) : ~BedMatchAt(s, m)
         IN [found |-> TRUE, n |-> DigitsVal(SubSeq(s, i, DigitRunEnd(s, i)))]
    ELSE [found |-> FALSE, n |-> 0]

(***************************************************************************)
(* datetime.strptime(s, "%Y-%m-%d") and the day difference of two dates    *)
(***************************************************************************)
IsLeap(y) == (y % 4 = 0 /\ y % 100 # 0) \/ y % 400 = 0

DaysInMonth(y, m) ==
    IF m = 2 THEN (IF IsLeap(y) THEN 29 ELSE 28)
    ELSE IF m \in {4, 6, 9, 11} THEN 30 ELSE 31

\* days from 0001-01-01 to y-m-d (date.toordinal)
RECURSIVE DaysBeforeMonth(_, _)
DaysBeforeMonth(y, m) ==
    IF m = 1 THEN 0 ELSE DaysBeforeMonth(y, m - 1) + DaysInMonth(y, m - 1)

Ordinal(y, m, d) ==
    LET p == y - 1 IN
    p * 365 + p \div 4 - p \div 100 + p \div 400 + DaysBeforeMonth(y, m) + d

\* positions of "-" in s
Dashes(s) == {i \in 1..Len(s) : s[i] = "-"}

\* strptime: %Y is four digits, %m and %d one or two digits, and the date
\* must exist; anything else is a ValueError (ok = FALSE).
ParseDate(s) ==
    LET ds == Dashes(s) IN
    IF Cardinality(ds) # 2 THEN [ok |-> FALSE, ord |-> 0]
    ELSE
      LET a  == CHOOSE i \in ds : \A j \in ds : i <= j
          b  == CHOOSE i \in ds : \A j \in ds : j <= i
          ys == SubSeq(s, 1, a - 1)
          ms == SubSeq(s, a + 1, b - 1)
          dd == SubSeq(s, b + 1, Len(s))
          okShape == /\ Len(ys) = 4 /\ AllDigits(ys)
                     /\ Len(ms) \in {1, 2} /\ AllDigits(ms)
                     /\ Len(dd) \in {1, 2} /\ AllDigits(dd)
          y  == DigitsVal(ys)
          m  == DigitsVal(ms)
          d  == DigitsVal(dd)
      IN
      IF okShape /\ y >= 1 /\ m \in 1..12 /\ d >= 1 /\ d <= DaysInMonth(y, m)
      THEN [ok |-> TRUE, ord |-> Ordinal(y, m, d)]
      ELSE [ok |-> FALSE, ord |-> 0]


(***************************************************************************)
(* build_raw_params(qs)                                                    *)
(*                                                                         *)
(* qs is the dict parse_qs returns: key -> list of str.  The code reads it *)
(* only with qs.get(key, []), so an absent key is the empty list.          *)
(***************************************************************************)
Keys ==
    {"ne_lat", "ne_lng", "ne_long", "sw_lat", "sw_lng", "sw_long",
     "zoom_level", "zoom", "place_id", "query", "checkin", "checkout",
     "price_min", "price_max", "min_beds", "min_bedrooms", "min_bathrooms",
     "adults", "children", "infants", "ib", "guest_favorite",
     "room_types[]", "amenities[]", "flexible_cancellation",
     "selected_filter_order[]"}

\* def first(key, default=None)
first(q, key, default) == IF q[key] # <<>> THEN q[key][1] ELSE default

Entry(name, values) == [filterName |-> name, filterValues |-> values]

\* outcome of a step of the build: the entries it appends, or an exception
Ok(entries) == [exc |-> "none", val |-> entries]
Raise(e)    == [exc |-> e, val |-> <<>>]
NotCalled   == [exc |-> "not_called", val |-> <<>>]

S_true  == <<"t", "r", "u", "e">>
S_false == <<"f", "a", "l", "s", "e">>
S_12    == <<"1", "2">>

BaseParams ==
    << Entry("cdnCacheSafe",    << S_false >>),
       Entry("channel",         << <<"E","X","P","L","O","R","E">> >>),
       Entry("datePickerType",  << <<"c","a","l","e","n","d","a","r">> >>),
       Entry("itemsPerGrid",    << <<"5","0">> >>),
       Entry("screenSize",      << <<"l","a","r","g","e">> >>),
       Entry("refinementPaths", << <<"/","h","o","m","e","s">> >>),
       Entry("tabId",           << <<"h","o","m","e","_","t","a","b">> >>),
       Entry("version",         << <<"1",".","8",".","3">> >>) >>

\* a plausible slip: `or` for `and`
has_bbox_any(ne_lat, ne_lng, sw_lat, sw_lng) ==
    Truthy(ne_lat) \/ Truthy(ne_lng) \/ Truthy(sw_lat) \/ Truthy(sw_lng)

\* has_bbox = ne_lat and ne_lng and sw_lat and sw_lng, as `if has_bbox:` reads it
has_bbox(ne_lat, ne_lng, sw_lat, sw_lng) ==
    Truthy(ne_lat) /\ Truthy(ne_lng) /\ Truthy(sw_lat) /\ Truthy(sw_lng)

\* str(int(float(zoom)))
ZoomLevel(zoom) ==
    LET f == ParseFloat(zoom) IN
    IF f.ok THEN Ok(IntToStr(IntOfFloat(f))) ELSE Raise("ValueError")

BBoxSection(ne_lat, ne_lng, sw_lat, sw_lng, zoom) ==
    IF has_bbox(ne_lat, ne_lng, sw_lat, sw_lng)
    THEN LET z == ZoomLevel(zoom) IN
         IF z.exc # "none" THEN Raise(z.exc)
         ELSE Ok(<< Entry("searchByMap", << S_true >>),
                    Entry("neLat",       << ne_lat >>),
                    Entry("neLng",       << ne_lng >>),
                    Entry("swLat",       << sw_lat >>),
                    Entry("swLng",       << sw_lng >>),
                    Entry("zoomLevel",   << z.val >>) >>)
    ELSE Ok(<<>>)

LocationSection(place_id, query) ==
    Ok((IF Truthy(place_id) THEN << Entry("placeId", << place_id >>) >> ELSE <<>>)
       \o (IF Truthy(query) THEN << Entry("query", << query >>) >> ELSE <<>>))

\* a plausible slip: each date is sent when it is there, the nights with both
DatesSection_each(check_in, check_out) ==
    IF Truthy(check_in) /\ Truthy(check_out)
    THEN (IF ~ParseDate(check_out).ok \/ ~ParseDate(check_in).ok THEN Raise("ValueError")
          ELSE Ok(<< Entry("checkin",  << check_in >>),
                     Entry("checkout", << check_out >>),
                     Entry("priceFilterNumNights",
                           << IntToStr(ParseDate(check_out).ord - ParseDate(check_in).ord) >>) >>))
    ELSE Ok((IF Truthy(check_in) THEN << Entry("checkin", << check_in >>) >> ELSE <<>>)
            \o (IF Truthy(check_out) THEN << Entry("checkout", << check_out >>) >> ELSE <<>>))

\* the dates: days = (strptime(check_out) - strptime(check_in)).days
DatesSection(check_in, check_out) ==
    IF Truthy(check_in) /\ Truthy(check_out)
    THEN LET o == ParseDate(check_out)
             i == ParseDate(check_in)
         IN IF ~o.ok \/ ~i.ok THEN Raise("ValueError")
            ELSE Ok(<< Entry("checkin",  << check_in >>),
                       Entry("checkout", << check_out >>),
                       Entry("priceFilterNumNights", << IntToStr(o.ord - i.ord) >>) >>)
    ELSE Ok(<<>>)

\* the filters emitted for a positive integer only; each has the name of its key
IntFilterNames ==
    {"price_min", "price_max", "adults", "children", "infants",
     "min_beds", "min_bedrooms", "min_bathrooms"}

\* a plausible slip: >= for >
PositiveIntFilter_nonneg(name, v) ==
    IF ~Truthy(v) THEN Ok(<<>>)
    ELSE IF ~ParseInt(v).ok THEN Raise("ValueError")
    ELSE IF ParseInt(v).v >= 0 THEN Ok(<< Entry(name, << v >>) >>) ELSE Ok(<<>>)

\* if v and int(v) > 0: raw.append({"filterName": name, "filterValues": [v]})
PositiveIntFilter(name, v) ==
    IF ~Truthy(v) THEN Ok(<<>>)
    ELSE LET n == ParseInt(v) IN
         IF ~n.ok THEN Raise("ValueError")
         ELSE IF n.v > 0 THEN Ok(<< Entry(name, << v >>) >>) ELSE Ok(<<>>)

\* a plausible slip: the values are taken in reverse order
OnePerValue_reversed(name, values) ==
    [i \in 1..Len(values) |-> Entry(name, << values[Len(values) + 1 - i] >>)]

\* for rt in room_types: raw.append({"filterName": name, "filterValues": [rt]})
OnePerValue(name, values) == [i \in 1..Len(values) |-> Entry(name, << values[i] >>)]

\* a plausible slip: one entry per amenity, as for the room types
AmenitiesSection_each(amenities) ==
    Ok([i \in 1..Len(amenities) |-> Entry("amenities", << amenities[i] >>)])

\* if amenities: raw.append({"filterName": "amenities", "filterValues": amenities})
AmenitiesSection(amenities) ==
    Ok(IF amenities # <<>> THEN << Entry("amenities", amenities) >> ELSE <<>>)

\* a plausible slip: the flag is sent with whatever value it has
FlagFilter_any(name, flag) == Ok(<< Entry(name, << Lower(flag) >>) >>)

\* if flag.lower() == "true": raw.append({"filterName": name, "filterValues": ["true"]})
FlagFilter(name, flag) ==
    Ok(IF Lower(flag) = S_true THEN << Entry(name, << S_true >>) >> ELSE <<>>)

\* the sections in the order the code runs them; the first exception ends the call
RECURSIVE RunSections(_, _)
RunSections(sections, acc) ==
    IF sections = <<>> THEN Ok(acc)
    ELSE IF Head(sections).exc # "none" THEN Raise(Head(sections).exc)
    ELSE RunSections(Tail(sections), acc \o Head(sections).val)

build_raw_params(q) ==
    LET ne_lat   == first(q, "ne_lat", first(q, "ne_lat", None))
        ne_lng   == first(q, "ne_lng", first(q, "ne_long", None))
        sw_lat   == first(q, "sw_lat", None)
        sw_lng   == first(q, "sw_lng", first(q, "sw_long", None))
        zoom     == first(q, "zoom_level", first(q, "zoom", S_12))
        place_id == first(q, "place_id", <<>>)
        query    == first(q, "query", <<>>)
    IN RunSections(
        << Ok(BaseParams),
           BBoxSection(ne_lat, ne_lng, sw_lat, sw_lng, zoom),
           LocationSection(place_id, query),
           DatesSection(first(q, "checkin", None), first(q, "checkout", None)),
           PositiveIntFilter("price_min", first(q, "price_min", None)),
           PositiveIntFilter("price_max", first(q, "price_max", None)),
           PositiveIntFilter("adults",    first(q, "adults", None)),
           PositiveIntFilter("children",  first(q, "children", None)),
           PositiveIntFilter("infants",   first(q, "infants", None)),
           PositiveIntFilter("min_beds",      first(q, "min_beds", None)),
           PositiveIntFilter("min_bedrooms",  first(q, "min_bedrooms", None)),
           PositiveIntFilter("min_bathrooms", first(q, "min_bathrooms", None)),
           Ok(OnePerValue("room_types", q["room_types[]"])),
           AmenitiesSection(q["amenities[]"]),
           FlagFilter("ib", first(q, "ib", S_false)),
           FlagFilter("guest_favorite", first(q, "guest_favorite", S_false)),
           FlagFilter("flexible_cancellation", first(q, "flexible_cancellation", S_false)),
           Ok(OnePerValue("selected_filter_order", q["selected_filter_order[]"])) >>,
        <<>>)


(***************************************************************************)
(* Inputs of build_raw_params                                              *)
(***************************************************************************)
MaxList == 2

\* all lists over S of length at most n
ListsUpTo(S, n) == UNION {[1..k -> S] : k \in 0..n}

\* the query string holding the keys of m, every other key absent
Q(m) == [k \in Keys |-> IF k \in DOMAIN m THEN m[k] ELSE <<>>]

Absent == <<>>
V_coord  == <<"4", "0", ".", "7">>
V_5_6    == <<"5", ".", "6">>
V_m3_5   == <<"-", "3", ".", "5">>
V_14     == <<"1", "4">>
V_abc    == <<"a", "b", "c">>
V_0      == <<"0">>
V_2      == <<"2">>
V_m1     == <<"-", "1">>
V_100    == <<"1", "0", "0">>
V_250    == <<"2", "5", "0">>
V_1_5    == <<"1", ".", "5">>
V_X      == <<"X">>
V_Y      == <<"Y">>
V_True   == <<"T", "r", "u", "e">>
S_ib     == <<"i", "b">>
D_0303   == <<"2","0","2","6","-","0","3","-","0","3">>
D_0310   == <<"2","0","2","6","-","0","3","-","1","0">>
D_0230   == <<"2","0","2","6","-","0","2","-","3","0">>
D_0228   == <<"2","0","2","4","-","0","2","-","2","8">>
D_bad    == <<"s","o","o","n">>

\* a coordinate key: absent, present but empty, present
CoordLists == {Absent, << <<>> >>, << V_coord >>}
AliasLists == {Absent, << V_0 >>}

\* bounding-box keys and zoom in every combination, with three kinds of rest
QsBBox(q) ==
    \E a \in CoordLists, b \in CoordLists, c \in AliasLists, d \in CoordLists,
        e \in CoordLists, f \in AliasLists,
        zl \in {Absent, << V_5_6 >>, << V_abc >>},
        z \in {Absent, << V_14 >>, << V_m3_5 >>},
        r \in { <<Absent, Absent, Absent>>,
                << <<V_X>>, <<D_0303>>, <<D_0310>> >>,
                << <<V_X>>, <<D_0230>>, <<D_0310>> >> } :
        q = Q(("ne_lat" :> a) @@ ("ne_lng" :> b) @@ ("ne_long" :> c) @@ ("sw_lat" :> d)
        @@ ("sw_lng" :> e) @@ ("sw_long" :> f) @@ ("zoom_level" :> zl)
        @@ ("zoom" :> z) @@ ("place_id" :> r[1]) @@ ("checkin" :> r[2])
        @@ ("checkout" :> r[3]))

FullBBox ==
    ("ne_lat" :> <<V_coord>>) @@ ("ne_lng" :> <<V_coord>>)
    @@ ("sw_lat" :> <<V_coord>>) @@ ("sw_lng" :> <<V_coord>>)

\* dates, prices, guests, property minimums, well-formed and not
QsValues(q) ==
    \E ci \in {Absent, <<D_0303>>, <<D_0230>>, <<D_0228>>},
        co \in {Absent, <<D_0310>>, <<D_bad>>},
        pmin \in {Absent, <<V_0>>, <<V_100>>, <<V_abc>>},
        pmax \in {Absent, <<V_250>>},
        ad \in {Absent, <<V_2>>, <<V_m1>>, <<V_abc>>},
        mb \in {Absent, <<V_2>>, <<V_1_5>>},
        pl \in {Absent, <<V_X>>},
        ib \in {Absent, <<S_true>>, <<V_True>>, <<S_false>>},
        bb \in {<<>>, FullBBox} :
        q = Q(("checkin" :> ci) @@ ("checkout" :> co) @@ ("price_min" :> pmin)
        @@ ("price_max" :> pmax) @@ ("adults" :> ad) @@ ("min_beds" :> mb)
        @@ ("place_id" :> pl) @@ ("ib" :> ib) @@ bb)

QsGuests(q) ==
    \E ch \in {Absent, <<V_0>>, <<V_2>>, <<V_abc>>},
        inf \in {Absent, <<V_0>>, <<V_2>>, <<V_abc>>},
        br \in {Absent, <<V_0>>, <<V_2>>, <<V_abc>>},
        ba \in {Absent, <<V_0>>, <<V_2>>, <<V_1_5>>} :
        q = Q(("children" :> ch) @@ ("infants" :> inf) @@ ("min_bedrooms" :> br)
        @@ ("min_bathrooms" :> ba))

\* the multi-valued keys and the flags
QsLists(q) ==
    \E rt \in ListsUpTo({V_X, V_Y}, MaxList),
        am \in ListsUpTo({V_2, V_14}, MaxList),
        fo \in ListsUpTo({V_X, S_ib}, MaxList),
        gf \in {Absent, <<S_true>>},
        fc \in {Absent, <<S_true>>, <<S_false>>},
        ib \in {Absent, <<S_true>>, <<S_false>>},
        qu \in {Absent, <<V_Y>>} :
        q = Q(("room_types[]" :> rt) @@ ("amenities[]" :> am)
        @@ ("selected_filter_order[]" :> fo) @@ ("guest_favorite" :> gf)
        @@ ("flexible_cancellation" :> fc) @@ ("ib" :> ib) @@ ("query" :> qu))

\* the positive-integer keys: any of them set to 2, and one of them zero,
\* negative, empty or positive
QsPositive(q) ==
    \E on \in SUBSET IntFilterNames, k \in IntFilterNames,
        v \in {V_0, V_m1, <<>>, V_100} :
        q = Q([n \in IntFilterNames |->
                  IF n = k THEN <<v>> ELSE IF n \in on THEN <<V_2>> ELSE Absent])

\* every section there or not, independently of the others
QsSections(q) ==
    \E bb \in {<<>>, FullBBox},
        pl \in {Absent, <<V_X>>},
        qu \in {Absent, <<V_Y>>},
        da \in { <<Absent, Absent>>, << <<D_0303>>, <<D_0310>> >> },
        pmax \in {Absent, <<V_250>>},
        inf \in {Absent, <<V_2>>},
        ba \in {Absent, <<V_2>>},
        rt \in {Absent, <<V_Y, V_X>>, <<V_X, V_X>>},
        am \in {Absent, <<V_14, V_2>>},
        gf \in {Absent, <<S_true>>},
        fo \in {Absent, <<S_ib>>} :
        q = Q(("place_id" :> pl) @@ ("query" :> qu) @@ ("checkin" :> da[1])
        @@ ("checkout" :> da[2]) @@ ("price_max" :> pmax) @@ ("infants" :> inf)
        @@ ("min_bathrooms" :> ba) @@ ("room_types[]" :> rt) @@ ("amenities[]" :> am)
        @@ ("guest_favorite" :> gf) @@ ("selected_filter_order[]" :> fo) @@ bb)

QsInputs(q) ==
    QsBBox(q) \/ QsValues(q) \/ QsGuests(q) \/ QsLists(q) \/ QsPositive(q) \/ QsSections(q)

(***************************************************************************)
(* fetch_live_hash and get_op_hash                                         *)
(*                                                                         *)
(* env is what the network answers during one fetch_live_hash call:        *)
(*   env.page  "ok", "error_status" (raise_for_status raises) or           *)
(*             "exception" (the GET itself raises)                         *)
(*   env.urls  the asset URLs re.findall finds in page.text, in page order *)
(*   env.asset url -> [status, marker]: status "200", "404" or "exception" *)
(*             (the GET raises); marker the hash the pattern captures in   *)
(*             r.text, or "None" when pattern.search finds nothing         *)
(***************************************************************************)
DEFAULT_HASH == "e75ccaa7c9468e19d7613208b37d05f9b680529490ca9bc9d3361202ca0a4e43"
NoHash == "None"
LiveHashes == {"live_hash_1", "live_hash_2"}

\* list(dict.fromkeys(urls)): first occurrences, in order
RECURSIVE Dedup(_, _)
Dedup(urls, seen) ==
    IF urls = <<>> THEN <<>>
    ELSE IF Head(urls) \in seen THEN Dedup(Tail(urls), seen)
    ELSE <<Head(urls)>> \o Dedup(Tail(urls), seen \cup {Head(urls)})

\* a plausible slip: an asset fetch that raises ends the scan
RECURSIVE ScanAssets_abort(_, _, _)
ScanAssets_abort(js_urls, env, fetched) ==
    IF js_urls = <<>>
    THEN [hash |-> DEFAULT_HASH, how |-> "no_match", fetched |-> fetched]
    ELSE IF env.asset[Head(js_urls)].status = "exception"
         THEN [hash |-> DEFAULT_HASH, how |-> "no_match", fetched |-> Append(fetched, Head(js_urls))]
         ELSE IF env.asset[Head(js_urls)].status = "200" /\ env.asset[Head(js_urls)].marker # "None"
              THEN [hash |-> env.asset[Head(js_urls)].marker, how |-> "found",
                    fetched |-> Append(fetched, Head(js_urls))]
              ELSE ScanAssets_abort(Tail(js_urls), env, Append(fetched, Head(js_urls)))

\* the for loop over js_urls; fetched is the list of assets requested so far
RECURSIVE ScanAssets(_, _, _)
ScanAssets(js_urls, env, fetched) ==
    IF js_urls = <<>>
    THEN [hash |-> DEFAULT_HASH, how |-> "no_match", fetched |-> fetched]
    ELSE LET u == Head(js_urls)
             r == env.asset[u]
             f == Append(fetched, u)
         IN IF r.status = "exception" THEN ScanAssets(Tail(js_urls), env, f)
            ELSE IF r.status # "200" THEN ScanAssets(Tail(js_urls), env, f)
            ELSE IF r.marker # "None"
                 THEN [hash |-> r.marker, how |-> "found", fetched |-> f]
                 ELSE ScanAssets(Tail(js_urls), env, f)

\* a plausible slip: the outer except re-raises instead of degrading
fetch_live_hash_raises(env) ==
    IF env.page # "ok"
    THEN [hash |-> NoHash, how |-> "raised", fetched |-> <<>>]
    ELSE ScanAssets(Dedup(env.urls, {}), env, <<>>)

fetch_live_hash(env) ==
    IF env.page # "ok"
    THEN [hash |-> DEFAULT_HASH, how |-> "page_failed", fetched |-> <<>>]
    ELSE ScanAssets(Dedup(env.urls, {}), env, <<>>)

\* a plausible slip: no `if _cached_hash is None` guard
get_op_hash_refetch(cache, live) ==
    [cache |-> live.hash, ret |-> live.hash, fetched |-> TRUE]

\* get_op_hash: the new value of _cached_hash, the value returned, and
\* whether fetch_live_hash was called; live is what fetch_live_hash returns
\* when it is called now
get_op_hash(cache, live) ==
    IF cache = NoHash
    THEN [cache |-> live.hash, ret |-> live.hash, fetched |-> TRUE]
    ELSE [cache |-> cache, ret |-> cache, fetched |-> FALSE]

MaxUrls == 3
AssetUrls == {"a.js", "b.js", "c.js"}
AssetAnswers ==
    {[status |-> "200", marker |-> h] : h \in LiveHashes \cup {"None"}}
    \cup {[status |-> "404", marker |-> "None"],
          [status |-> "exception", marker |-> "None"]}

\* the environments of a fetch_live_hash call
Envs ==
    {[page |-> p, urls |-> <<>>, asset |-> [u \in AssetUrls |-> [status |-> "404", marker |-> "None"]]] :
        p \in {"error_status", "exception"}}
    \cup {[page |-> "ok", urls |-> us, asset |-> a] :
            us \in ListsUpTo(AssetUrls, MaxUrls), a \in [AssetUrls -> AssetAnswers]}

(***************************************************************************)
(* search_page and search_from_url                                         *)
(***************************************************************************)
\* parse_qs(urlparse(url).query): url is the query part, a list of
\* <<key, value>> pairs; values of one key are collected in order and blank
\* values are dropped (keep_blank_values is False)
RECURSIVE ValuesOf(_, _)
ValuesOf(pairs, k) ==
    IF pairs = <<>> THEN <<>>
    ELSE (IF Head(pairs)[1] = k /\ Head(pairs)[2] # <<>> THEN <<Head(pairs)[2]>> ELSE <<>>)
         \o ValuesOf(Tail(pairs), k)

parse_qs(pairs) == [k \in Keys |-> ValuesOf(pairs, k)]

\* a plausible slip: the map variant always asks for the first page
Request_map_first_page(key, cur, raw_params, currency, language, hash) ==
    [url_hash   |-> hash,
     locale     |-> language,
     currency   |-> currency,
     sha256Hash |-> hash,
     api_key    |-> key,
     staysMapSearchRequestV2 |-> [cursor |-> "", rawParams |-> raw_params],
     staysSearchRequest      |-> [cursor |-> cur, rawParams |-> raw_params]]

\* a plausible slip: the signature is looked up on every call, whatever the
\* caller passed
not_op_hash_always(h) == TRUE

\* `not op_hash` in search_from_url: no signature was passed (None, the
\* default, or the empty string)
not_op_hash(h) == h \in {"None", ""}

\* a plausible slip: the cursor is never handed on, every page asks for the
\* first one
Request_cursor_dropped(key, cur, raw_params, currency, language, hash) ==
    [url_hash   |-> hash,
     locale     |-> language,
     currency   |-> currency,
     sha256Hash |-> hash,
     api_key    |-> key,
     staysMapSearchRequestV2 |-> [cursor |-> "", rawParams |-> raw_params],
     staysSearchRequest      |-> [cursor |-> "", rawParams |-> raw_params]]

\* the request search_page posts
Request(key, cur, raw_params, currency, language, hash) ==
    [url_hash   |-> hash,
     locale     |-> language,
     currency   |-> currency,
     sha256Hash |-> hash,
     api_key    |-> key,
     staysMapSearchRequestV2 |-> [cursor |-> cur, rawParams |-> raw_params],
     staysSearchRequest      |-> [cursor |-> cur, rawParams |-> raw_params]]

\* a plausible slip: a failed page is taken for an empty last page
search_page_swallow(resp) ==
    IF resp.transport \/ resp.status # 200
    THEN Ok([resp EXCEPT !.listings = <<>>, !.nextPageCursor = "None"])
    ELSE Ok(resp)

\* a plausible slip: a failed key fetch leaves the search without a key
get_api_key_swallow(answer) == Ok(answer)

\* get_api_key(proxy_url), given what pyairbnb.api.get does: it returns a key
\* or raises (answer "None")
get_api_key(answer) ==
    IF answer = "None" THEN Raise("CredentialError") ELSE Ok(answer)

\* search_page after the POST: resp is the upstream's answer.  A transport
\* failure raises out of cffi_requests.post, a status other than 200 raises
\* Exception("HTTP ..."), otherwise resp.json() is returned as it is.
search_page(resp) ==
    IF resp.transport THEN Raise("TransportError")
    ELSE IF resp.status # 200 THEN Raise("HTTP")
    ELSE Ok(resp)

\* standardize.from_search(data): the listings of the page
from_search(data) == data.listings

\* pagination.get("nextPageCursor")
next_page_cursor(data) == data.nextPageCursor

\* a plausible slip: break before extending all_results
loop_break_before_extend(results, next_cursor, acc) ==
    IF results = <<>> \/ next_cursor \in {"None", ""}
    THEN [all |-> acc, stop |-> TRUE]
    ELSE [all |-> acc \o results, stop |-> FALSE]

\* a plausible slip: stop only on a missing cursor, not on an empty page
loop_ignores_empty_page(results, next_cursor, acc) ==
    [all |-> acc \o results, stop |-> next_cursor \in {"None", ""}]

\* a plausible slip: the loop also ends once two listings are gathered
loop_with_result_cap(results, next_cursor, acc) ==
    [all  |-> acc \o results,
     stop |-> results = <<>> \/ next_cursor \in {"None", ""} \/ Len(acc \o results) >= 2]

\* the tail of one loop iteration: all_results.extend(results);
\* if not results or not next_cursor: break
loop_step(results, next_cursor, acc) ==
    [all  |-> acc \o results,
     stop |-> results = <<>> \/ next_cursor \in {"None", ""}]

MaxSearches == 2
MaxPages == 3
MaxPageSize == 2

\* the listings of the n-th page the upstream serves
PageListings(n, size) == [i \in 1..size |-> <<n, i>>]

\* the cursor the upstream hands out with its n-th page
CursorOf(n) == IF n = 1 THEN "cursor_1" ELSE IF n = 2 THEN "cursor_2" ELSE "cursor_n"

\* what the upstream may answer to the n-th request of a search: a page of
\* listings with a cursor that is missing, empty or set; a 200 whose body
\* carries an errors array (with no data, or with partial data); an error
\* status; a transport failure
Responses(n) ==
    {[transport |-> FALSE, status |-> 200, errors |-> FALSE,
      listings |-> PageListings(n, s), nextPageCursor |-> c] :
        s \in 0..MaxPageSize, c \in {"None", "", CursorOf(n)}}
    \cup {[transport |-> FALSE, status |-> 200, errors |-> TRUE,
           listings |-> <<>>, nextPageCursor |-> "None"],
          [transport |-> FALSE, status |-> 200, errors |-> TRUE,
           listings |-> PageListings(n, 1), nextPageCursor |-> CursorOf(n)],
          [transport |-> FALSE, status |-> 403, errors |-> FALSE,
           listings |-> <<>>, nextPageCursor |-> "None"],
          [transport |-> TRUE, status |-> 0, errors |-> FALSE,
           listings |-> <<>>, nextPageCursor |-> "None"]}

\* the search URLs: a place with dates, a map search with a blank alias,
\* one with a malformed price
Urls ==
    { << <<"place_id", V_X>>, <<"checkin", D_0303>>, <<"checkout", D_0310>> >>,
      << <<"ne_lat", V_coord>>, <<"ne_lng", V_coord>>, <<"sw_lat", V_coord>>,
         <<"sw_lng", <<>> >>, <<"sw_long", V_0>>, <<"zoom", V_5_6>>,
         <<"ib", S_true>> >>,
      << <<"place_id", V_X>>, <<"price_min", V_abc>> >> }

ArgHashes == {"None", "", "caller_hash"}
ApiKeys == {"key_1", "key_2"}
Currency == "USD"
Language == "en"

NoOutcome      == [kind |-> "none", val |-> <<>>, err |-> "none"]
Returns(list)  == [kind |-> "returned", val |-> list, err |-> "none"]
Raises(e)      == [kind |-> "raised", val |-> <<>>, err |-> e]

\* what is kept of a fetch_live_hash call: how the page fetch went, whether an
\* asset listed on the page answers 200 with the marker, and what the call did
ScanOf(env) ==
    LET f == fetch_live_hash(env) IN
    [page   |-> env.page,
     marker |-> env.page = "ok" /\ \E i \in 1..Len(env.urls) :
                    LET a == env.asset[env.urls[i]] IN a.status = "200" /\ a.marker # "None",
     how    |-> f.how,
     hash   |-> f.hash]

\* the fetch_live_hash calls that can happen, one per environment
Scans == {ScanOf(env) : env \in Envs}

\* each search URL with its parsed query string and its filter list
UrlBuilds == {[qs |-> parse_qs(u), built |-> build_raw_params(parse_qs(u))] : u \in Urls}

NoScan == [page |-> "none", marker |-> FALSE, how |-> "not_called", hash |-> NoHash]

\* no fetch_live_hash call of its own, and no network for it
NoNet == [page |-> "none", urls |-> <<>>,
          asset |-> [u \in AssetUrls |-> [status |-> "404", marker |-> "None"]]]
NotScanned == [hash |-> NoHash, how |-> "not_called", fetched |-> <<>>]

(***************************************************************************)
(* Python values of a raw listing                                          *)
(*                                                                         *)
(* A value whose type the code cannot know is a record: its type t and     *)
(* its payload in the field of that type (b: bool, n: int, s: str, l:      *)
(* list, d: dict).  A dict is a function on the keys it holds.             *)
(***************************************************************************)
\* the dict without keys
NoItems == [k \in {} |-> 0]

PyValue(t, b, n, s, l, d) == [t |-> t, b |-> b, n |-> n, s |-> s, l |-> l, d |-> d]
PyNone    == PyValue("none", FALSE, 0, <<>>, <<>>, NoItems)
PyBool(b) == PyValue("bool", b, 0, <<>>, <<>>, NoItems)
PyInt(n)  == PyValue("int", FALSE, n, <<>>, <<>>, NoItems)
PyStr(s)  == PyValue("str", FALSE, 0, s, <<>>, NoItems)
PyList(l) == PyValue("list", FALSE, 0, <<>>, l, NoItems)
PyDict(d) == PyValue("dict", FALSE, 0, <<>>, <<>>, d)
EmptyDict == PyDict(NoItems)
EmptyList == PyList(<<>>)
EmptyStr  == PyStr(<<>>)

\* bool(x)
PyTruthy(x) ==
    CASE x.t = "none" -> FALSE
      [] x.t = "bool" -> x.b
      [] x.t = "int"  -> x.n # 0
      [] x.t = "str"  -> x.s # <<>>
      [] x.t = "list" -> x.l # <<>>
      [] x.t = "dict" -> DOMAIN x.d # {}

\* a or b
PyOr(a, b) == IF PyTruthy(a) THEN a ELSE b

\* d.get(k) of a dict d
Get(d, k) == IF k \in DOMAIN d.d THEN d.d[k] ELSE PyNone

\* str(x)
PyStrOf(x) ==
    CASE x.t = "none" -> <<"N", "o", "n", "e">>
      [] x.t = "bool" -> IF x.b THEN <<"T", "r", "u", "e">> ELSE <<"F", "a", "l", "s", "e">>
      [] x.t = "int"  -> IntToStr(x.n)
      [] x.t = "str"  -> x.s
      [] OTHER        -> <<"<", x.t, ">">>

\* int(x)
PyIntOf(x) ==
    CASE x.t = "int"  -> Ok(x.n)
      [] x.t = "bool" -> Ok(IF x.b THEN 1 ELSE 0)
      [] x.t = "str"  -> IF ParseInt(x.s).ok THEN Ok(ParseInt(x.s).v) ELSE Raise("ValueError")
      [] OTHER        -> Raise("TypeError")

\* the keys of a dict in some order (iteration over a dict yields its keys)
RECURSIVE SetToSeq(_)
SetToSeq(S) ==
    IF S = {} THEN <<>>
    ELSE LET x == CHOOSE y \in S : TRUE IN <<x>> \o SetToSeq(S \ {x})

\* iter(x): the items a for loop or any() sees
Iterate(x) ==
    CASE x.t = "list" -> Ok(x.l)
      [] x.t = "str"  -> Ok([i \in 1..Len(x.s) |-> PyStr(<<x.s[i]>>)])
      [] x.t = "dict" -> Ok(SetToSeq({PyStr(<<k>>) : k \in DOMAIN x.d}))
      [] OTHER        -> Raise("TypeError")

T_GUEST_FAVORITE == <<"G","U","E","S","T","_","F","A","V","O","R","I","T","E">>
T_INSTANT        == <<"I","N","S","T","A","N","T">>
T_BEDINFO        == <<"B","E","D","I","N","F","O">>
HomeWords ==
    { <<"e","n","t","i","r","e">>, <<"h","o","m","e">>, <<"h","o","u","s","e">>,
      <<"a","p","t">>, <<"a","p","a","r","t","m","e","n","t">>,
      <<"s","t","u","d","i","o">> }
MonthWords ==
    { <<"m","o","n","t","h">>, <<"m","o","n","t","h","l","y">>,
      <<"l","o","n","g","-","s","t","a","y">>, <<"l","o","n","g"," ","s","t","a","y">> }

\* any(token in str(b).upper() for b in badges)
AnyBadge(badges, token) ==
    LET it == Iterate(badges) IN
    IF it.exc # "none" THEN Raise(it.exc)
    ELSE Ok(\E i \in 1..Len(it.val) : Contains(Upper(PyStrOf(it.val[i])), token))

\* is_guest_fav(item) of the post-filter
is_guest_fav(item) ==
    IF PyTruthy(Get(item, "is_guest_favorite")) \/ PyTruthy(Get(item, "isGuestFavorite"))
    THEN Ok(TRUE)
    ELSE AnyBadge(PyOr(Get(item, "badges"), EmptyList), T_GUEST_FAVORITE)

\* is_instant(item) of the post-filter
is_instant(item) ==
    IF \/ PyTruthy(Get(item, "ib")) \/ PyTruthy(Get(item, "instant_book"))
       \/ PyTruthy(Get(item, "is_instant_bookable")) \/ PyTruthy(Get(item, "isInstantBookable"))
    THEN Ok(TRUE)
    ELSE AnyBadge(PyOr(Get(item, "badges"), EmptyList), T_INSTANT)

\* body = (entry.get('body') if isinstance(entry, dict) else str(entry)) or ''
BodyOf(entry) ==
    PyOr(IF entry.t = "dict" THEN Get(entry, "body") ELSE PyStr(PyStrOf(entry)), EmptyStr)

\* the first loop of meets_min_beds: the first of beds, min_beds, bedCount that
\* is not None and converts to an int decides; [decided, keep]
RECURSIVE BedFields(_, _, _)
BedFields(item, fields, want) ==
    IF fields = <<>> THEN [decided |-> FALSE, keep |-> TRUE]
    ELSE LET val == Get(item, Head(fields)) IN
         IF val.t # "none" /\ PyIntOf(val).exc = "none" /\ PyIntOf(want).exc = "none"
         THEN [decided |-> TRUE, keep |-> PyIntOf(val).val >= PyIntOf(want).val]
         ELSE BedFields(item, Tail(fields), want)

\* the entries of sc[arr_key] for the keys in order, one list; an exception
\* where a sc.get(arr_key) that is truthy cannot be iterated
RECURSIVE LinesOf(_, _)
LinesOf(sc, arr_keys) ==
    IF arr_keys = <<>> THEN Ok(<<>>)
    ELSE LET it == Iterate(PyOr(Get(sc, Head(arr_keys)), EmptyList)) IN
         IF it.exc # "none" THEN [exc |-> it.exc, val |-> <<>>]
         ELSE LET rest == LinesOf(sc, Tail(arr_keys)) IN
              [exc |-> rest.exc, val |-> it.val \o rest.val]

\* int(m.group(1)) >= int(want_min_beds)
BedCountVerdict(n, want) ==
    IF PyIntOf(want).exc # "none" THEN Raise(PyIntOf(want).exc)
    ELSE Ok(n >= PyIntOf(want).val)

\* the second loop of meets_min_beds over the entries: the first body with a
\* bed count decides
RECURSIVE BedLines(_, _, _)
BedLines(entries, want, end) ==
    IF entries = <<>> THEN end
    ELSE IF BedNumber(PyStrOf(BodyOf(Head(entries)))).found
    THEN BedCountVerdict(BedNumber(PyStrOf(BodyOf(Head(entries)))).n, want)
    ELSE BedLines(Tail(entries), want, end)

\* the end of meets_min_beds once its first loop decided nothing: the lines of
\* sc decide, or the return after the loops does
BedsFromLines(ls, want, otherwise) ==
    BedLines(ls.val, want, IF ls.exc # "none" THEN Raise(ls.exc) ELSE Ok(otherwise))

BedsVerdict(f, sc, want, otherwise) ==
    IF f.decided THEN Ok(f.keep)
    ELSE IF sc.t # "dict" THEN Raise("AttributeError")
    ELSE BedsFromLines(LinesOf(sc, <<"mapPrimaryLine", "primaryLine">>), want, otherwise)

\* a plausible slip: a listing without bed information does not pass
meets_min_beds_strict(item, want_min_beds) ==
    BedsVerdict(BedFields(item, <<"beds", "min_beds", "bedCount">>, want_min_beds),
                PyOr(Get(item, "structuredContent"), EmptyDict), want_min_beds, FALSE)

\* meets_min_beds(item): the loops, then return True
meets_min_beds(item, want_min_beds) ==
    BedsVerdict(BedFields(item, <<"beds", "min_beds", "bedCount">>, want_min_beds),
                PyOr(Get(item, "structuredContent"), EmptyDict), want_min_beds, TRUE)

\* is_monthly(item) of the post-filter
is_monthly(item) ==
    IF PyTruthy(Get(item, "long_stay_discount")) THEN Ok(TRUE)
    ELSE LET price_obj == PyOr(Get(item, "price"), EmptyDict) IN
         IF price_obj.t # "dict" THEN Raise("AttributeError")
         ELSE LET unit == PyOr(Get(price_obj, "unit"), EmptyDict) IN
              IF unit.t # "dict" THEN Raise("AttributeError")
              ELSE LET q == PyOr(Get(unit, "qualifier"), EmptyStr) IN
                   IF q.t # "str" THEN Raise("AttributeError")
                   ELSE Ok(\/ Contains(Lower(q.s), <<"m", "o", "n", "t", "h">>)
                           \/ Contains(Lower(q.s), <<"m", "o">>)
                           \/ \E k \in {"name", "title", "summary"} :
                                 LET tx == PyOr(Get(item, k), EmptyStr) IN
                                 tx.t = "str" /\ ContainsWord(tx.s, MonthWords))

\* [r for r in results if f(r)], given f(r) of every r: the first exception
\* leaves the comprehension
RECURSIVE Kept(_, _)
Kept(results, verdicts) ==
    IF results = <<>> THEN Ok(<<>>)
    ELSE IF Head(verdicts).exc # "none" THEN Raise(Head(verdicts).exc)
    ELSE LET rest == Kept(Tail(results), Tail(verdicts)) IN
         IF rest.exc # "none" THEN rest
         ELSE Ok((IF Head(verdicts).val THEN <<Head(results)>> ELSE <<>>) \o rest.val)

\* pick(*keys): the first of the keys that the listing holds with a value
\* other than None
RECURSIVE pick(_, _)
pick(listing, keys) ==
    IF keys = <<>> THEN PyNone
    ELSE IF Get(listing, Head(keys)).t # "none" THEN Get(listing, Head(keys))
    ELSE pick(listing, Tail(keys))

\* listing_id: str(int(raw_id)), or str(raw_id) where int() raises
listing_id(raw_id) ==
    IF raw_id.t = "none" THEN PyNone
    ELSE IF PyIntOf(raw_id).exc = "none" THEN PyStr(IntToStr(PyIntOf(raw_id).val))
    ELSE PyStr(PyStrOf(raw_id))

\* the loop over structured['mapPrimaryLine']: the first BEDINFO entry whose
\* body holds a number; a body that is not a str raises inside the try
RECURSIVE BedInfoScan(_)
BedInfoScan(entries) ==
    IF entries = <<>> THEN PyNone
    ELSE LET entry == Head(entries) IN
         IF entry.t = "dict" /\ Get(entry, "type").t = "str"
                             /\ Get(entry, "type").s = T_BEDINFO
         THEN LET body == PyOr(Get(entry, "body"), EmptyStr) IN
              IF body.t # "str" THEN PyNone
              ELSE IF FirstNumber(body.s).found THEN PyInt(FirstNumber(body.s).n)
              ELSE BedInfoScan(Tail(entries))
         ELSE BedInfoScan(Tail(entries))

\* beds (and bedrooms): the try block swallows every exception
BedInfo(structured) ==
    IF structured.t # "dict" THEN PyNone
    ELSE LET it == Iterate(PyOr(Get(structured, "mapPrimaryLine"), EmptyList)) IN
         IF it.exc # "none" THEN PyNone ELSE BedInfoScan(it.val)

\* a plausible slip: the field and a badge are both asked for
FlagOrBadge_and(listing, keys, badges, token) ==
    IF \E k \in keys : PyTruthy(Get(listing, k)) THEN AnyBadge(badges, token)
    ELSE Ok(FALSE)

\* bool(a or b or ... or any(token in str(b).upper() for b in badges))
FlagOrBadge(listing, keys, badges, token) ==
    IF \E k \in keys : PyTruthy(Get(listing, k)) THEN Ok(TRUE)
    ELSE AnyBadge(badges, token)

\* re.search(r'HOME|ENTIRE', b, re.I) for some str b of badges
HomeBadge(it) ==
    IF it.exc # "none" THEN Raise(it.exc)
    ELSE Ok(\E i \in 1..Len(it.val) :
               /\ it.val[i].t = "str"
               /\ \/ Contains(Upper(it.val[i].s), <<"H", "O", "M", "E">>)
                  \/ Contains(Upper(it.val[i].s), <<"E", "N", "T", "I", "R", "E">>))

\* the loops of detect_is_home over the lines of sc, then the badges
HomeLines(ls, badges) ==
    IF \E i \in 1..Len(ls.val) :
          BodyOf(ls.val[i]).t = "str" /\ ContainsWord(BodyOf(ls.val[i]).s, HomeWords)
    THEN Ok(TRUE)
    ELSE IF ls.exc # "none" THEN Raise(ls.exc)
    ELSE HomeBadge(Iterate(badges))

\* the room type and the texts of detect_is_home
HomeText(item, rt) ==
    \/ rt.t = "str" /\ (\/ Contains(Lower(rt.s), <<"e", "n", "t", "i", "r", "e">>)
                        \/ Contains(Lower(rt.s), <<"h", "o", "m", "e">>))
    \/ \E k \in {"name", "title", "summary"} :
          PyOr(Get(item, k), EmptyStr).t = "str"
          /\ ContainsWord(PyOr(Get(item, k), EmptyStr).s, HomeWords)

HomeContent(sc, badges) ==
    IF sc.t # "dict" THEN Raise("AttributeError")
    ELSE HomeLines(LinesOf(sc, <<"primaryLine", "mapPrimaryLine",
                                 "secondaryLine", "mapSecondaryLine">>), badges)

\* detect_is_home(item); badges is the closure variable of the loop body
detect_is_home(item, badges) ==
    IF PyTruthy(Get(item, "entire_place")) \/ PyTruthy(Get(item, "is_entire_place"))
    THEN Ok(TRUE)
    ELSE IF HomeText(item, PyOr(PyOr(Get(item, "roomType"), Get(item, "type")), EmptyStr))
    THEN Ok(TRUE)
    ELSE HomeContent(PyOr(Get(item, "structuredContent"), EmptyDict), badges)

\* hostIsSuperhost
host_is_superhost(listing) ==
    LET p == pick(listing, <<"hostIsSuperhost", "host_is_superhost">>) IN
    IF PyTruthy(p) THEN p
    ELSE IF Get(listing, "host").t # "dict" THEN PyBool(FALSE)
    ELSE Get(Get(listing, "host"), "is_superhost")

\* rating_value and review_count_from_rating
rating_value(raw_rating) ==
    IF raw_rating.t = "dict" THEN Get(raw_rating, "value") ELSE raw_rating
review_count_from_rating(raw_rating) ==
    IF raw_rating.t = "dict" THEN Get(raw_rating, "reviewCount") ELSE PyNone

\* lat (keys lat, latitude) and lng (keys lng, longitude)
Coordinate(loc, key, other) ==
    IF loc.t = "dict" THEN PyOr(Get(loc, key), Get(loc, other)) ELSE PyNone

\* the dict appended to formatted_results, or the exception that one of the
\* three derived flags raised
FormattedRow(listing, currency, raw_rating, loc, badges, beds, is_guest_favorite, instant_book, is_home) ==
    IF is_guest_favorite.exc # "none" THEN Raise(is_guest_favorite.exc)
    ELSE IF instant_book.exc # "none" THEN Raise(instant_book.exc)
    ELSE IF is_home.exc # "none" THEN Raise(is_home.exc)
    ELSE Ok([id              |-> listing_id(pick(listing, <<"id", "room_id", "roomId", "listingId">>)),
             url             |-> pick(listing, <<"url", "listing_url">>),
             name            |-> pick(listing, <<"name", "title">>),
             price           |-> pick(listing, <<"price", "price_total", "priceValue">>),
             currency        |-> currency,
             rating          |-> rating_value(raw_rating),
             reviewsCount    |-> PyOr(PyOr(pick(listing, <<"reviewsCount", "review_count">>),
                                           review_count_from_rating(raw_rating)), PyInt(0)),
             roomType        |-> pick(listing, <<"roomType", "type">>),
             guests          |-> pick(listing, <<"guests", "person_capacity">>),
             address         |-> pick(listing, <<"address", "location_address">>),
             lat             |-> Coordinate(loc, "lat", "latitude"),
             lng             |-> Coordinate(loc, "lng", "longitude"),
             hostId          |-> pick(listing, <<"hostId", "host_id">>),
             hostName        |-> pick(listing, <<"hostName", "host_name">>),
             hostIsSuperhost |-> host_is_superhost(listing),
             photos          |-> PyOr(pick(listing, <<"photos", "images">>), EmptyList),
             badges          |-> badges,
             isGuestFavorite |-> PyBool(is_guest_favorite.val),
             instantBook     |-> PyBool(instant_book.val),
             isHome          |-> PyBool(is_home.val),
             bedrooms        |-> beds,
             beds            |-> beds])

\* the loop body from the point where badges is set
NormaliseWith(listing, currency, badges) ==
    FormattedRow(listing, currency,
                 pick(listing, <<"rating", "stars", "score">>),
                 PyOr(pick(listing, <<"location", "coordinates">>), EmptyDict),
                 badges,
                 BedInfo(PyOr(Get(listing, "structuredContent"), EmptyDict)),
                 FlagOrBadge(listing, {"is_guest_favorite", "isGuestFavorite"},
                             badges, T_GUEST_FAVORITE),
                 FlagOrBadge(listing, {"ib", "instant_book", "is_instant_bookable",
                                       "isInstantBookable"}, badges, T_INSTANT),
                 detect_is_home(listing, badges))

\* the body of the loop over results: the dict appended for one listing, or
\* the exception that leaves the loop
normalise(listing, currency) ==
    NormaliseWith(listing, currency, PyOr(pick(listing, <<"badges">>), EmptyList))

\* params.get(key, default)
ParamOr(args, key, default) == IF key \in DOMAIN args.d THEN args.d[key] ELSE default

using_url(args) == PyTruthy(ParamOr(args, "search_url", EmptyStr))

\* a float, kept as sign, integer part and "has a non-zero fraction"; ok is
\* FALSE where there is none
NoZoom == [ok |-> FALSE, neg |-> FALSE, ip |-> 0, frac |-> FALSE]
FloatOfInt(n) == [ok |-> TRUE, neg |-> n < 0, ip |-> IF n < 0 THEN -n ELSE n, frac |-> FALSE]

\* float(x): of an int, a bool or a str; a TypeError or ValueError otherwise
\* (ok = FALSE)
PyFloatOf(x) ==
    CASE x.t = "int"  -> FloatOfInt(x.n)
      [] x.t = "bool" -> FloatOfInt(IF x.b THEN 1 ELSE 0)
      [] x.t = "str"  -> ParseFloat(x.s)
      [] OTHER        -> NoZoom

\* f < 12.0 and f > 16.0
Below12(f) == (f.neg /\ (f.ip > 0 \/ f.frac)) \/ f.ip < 12
Above16(f) == ~f.neg /\ (f.ip > 16 \/ (f.ip = 16 /\ f.frac))

\* max(12.0, min(raw_zoom, 16.0))
Clamp(f) == IF Above16(f) THEN FloatOfInt(16) ELSE IF Below12(f) THEN FloatOfInt(12) ELSE f

\* lines 70-80: raw_zoom, has_bbox and zoom of the fallback path
fallback_zoom(args, raw_zoom) ==
    IF /\ raw_zoom.t # "none" /\ PyFloatOf(raw_zoom).ok
       /\ \A k \in {"ne_lat", "ne_long", "sw_lat", "sw_long"} : PyTruthy(Get(args, k))
    THEN Clamp(PyFloatOf(raw_zoom))
    ELSE FloatOfInt(12)

\* zoom_value of pyairbnb.search_all(...), which only the fallback path calls
search_all_zoom(args) ==
    IF using_url(args) THEN NoZoom
    ELSE fallback_zoom(args, PyOr(Get(args, "zoom"), Get(args, "zoom_level")))

\* the monthly filter
MonthlyFilter(args, results) ==
    IF \/ PyTruthy(Get(args, "monthly_search"))
       \/ /\ PyTruthy(Get(args, "monthly_start_date"))
          /\ ~(PyTruthy(Get(args, "check_in")) /\ PyTruthy(Get(args, "check_out")))
    THEN Kept(results, [i \in 1..Len(results) |-> is_monthly(results[i])])
    ELSE Ok(results)

\* a plausible slip: the guest_favorite filter left to the server like the others
GuestFavoriteFilter_fallback_only(args, r) ==
    IF r.exc = "none" /\ PyTruthy(Get(args, "guest_favorite")) /\ ~using_url(args)
    THEN Kept(r.val, [i \in 1..Len(r.val) |-> is_guest_fav(r.val[i])])
    ELSE r

\* the guest_favorite filter, on both paths; r is what the step before gave
GuestFavoriteFilter(args, r) ==
    IF r.exc = "none" /\ PyTruthy(Get(args, "guest_favorite"))
    THEN Kept(r.val, [i \in 1..Len(r.val) |-> is_guest_fav(r.val[i])])
    ELSE r

\* a plausible slip: the instant_book filter on both paths
InstantBookFilter_always(args, r) ==
    IF r.exc = "none" /\ PyTruthy(Get(args, "instant_book"))
    THEN Kept(r.val, [i \in 1..Len(r.val) |-> is_instant(r.val[i])])
    ELSE r

\* the instant_book filter, on the fallback path only
InstantBookFilter(args, r) ==
    IF r.exc = "none" /\ PyTruthy(Get(args, "instant_book")) /\ ~using_url(args)
    THEN Kept(r.val, [i \in 1..Len(r.val) |-> is_instant(r.val[i])])
    ELSE r

\* the min_beds filter, on the fallback path only
MinBedsFilter(args, r, want_min_beds) ==
    IF r.exc = "none" /\ PyTruthy(want_min_beds) /\ ~using_url(args)
    THEN Kept(r.val, [i \in 1..Len(r.val) |-> meets_min_beds(r.val[i], want_min_beds)])
    ELSE r

\* the post-filters, in the order of the code; each one sees what the one
\* before it kept
PostFilters(args, results) ==
    MinBedsFilter(args,
        InstantBookFilter(args, GuestFavoriteFilter(args, MonthlyFilter(args, results))),
        PyOr(Get(args, "min_beds"), PyInt(0)))

\* a plausible slip: the loop ends at the first exception and what it has
\* formatted so far is returned
FormattedResults_partial(rows) ==
    Ok([i \in 1..Cardinality({k \in 1..Len(rows) : \A j \in 1..k : rows[j].exc = "none"})
           |-> rows[i].val])

\* formatted_results of the loop over results, given the outcome of each turn:
\* the first exception leaves the loop
FormattedResults(rows) ==
    IF \E i \in 1..Len(rows) : rows[i].exc # "none"
    THEN Raise(rows[CHOOSE i \in 1..Len(rows) :
                       /\ rows[i].exc # "none"
                       /\ \A j \in 1..(i - 1) : rows[j].exc = "none"].exc)
    ELSE Ok([i \in 1..Len(rows) |-> rows[i].val])

\* the loop over the results the post-filters kept
Normalised(results, currency) ==
    IF results.exc # "none" THEN results
    ELSE FormattedResults([i \in 1..Len(results.val) |-> normalise(results.val[i], currency)])

\* search_listings(params), given what the search call of its path gave:
\* search_from_url where search_url is set, pyairbnb.search_all otherwise.
\* Every exception leaves as Exception("Search error: ..."); the record
\* keeps the kind of the exception that caused it.
search_listings(args, search) ==
    IF search.exc # "none" THEN Raise(search.exc)
    ELSE Normalised(PostFilters(args, PyOr(search.val, EmptyList).l),
                    ParamOr(args, "currency", PyStr(<<"U", "S", "D">>)))

\* what the output file holds: nothing, the list json.dump wrote, or the
\* object {'error': ..., 'results': []}
NoFile           == [shape |-> "none", error |-> "none", results |-> <<>>]
JsonList(rows)   == [shape |-> "list", error |-> "none", results |-> rows]
ErrorObject(err) == [shape |-> "object", error |-> err, results |-> <<>>]

\* len(sys.argv) of a run: the script name and two file names, or fewer
ArgCounts == {2, 3}

\* what json.dump(results, f) leaves for the outcome of search_listings
Dumped(call) ==
    IF call.exc = "none" THEN [call |-> call, file |-> JsonList(call.val), exit |-> "0"]
    ELSE [call |-> call, file |-> ErrorObject(call.exc), exit |-> "1"]
Ran(args, r) == [call |-> r.call, file |-> r.file, exit |-> r.exit, zoom |-> search_all_zoom(args)]

\* main(): argc is len(sys.argv), loads whether json.load(f) gives params
\* (it raises on a missing or malformed input file)
main(argc, loads, args, search) ==
    IF argc # 3 THEN [call |-> NotCalled, file |-> NoFile, exit |-> "1", zoom |-> NoZoom]
    ELSE IF ~loads
    THEN [call |-> NotCalled, file |-> ErrorObject("LoadError"), exit |-> "1", zoom |-> NoZoom]
    ELSE Ran(args, Dumped(search_listings(args, search)))

(***************************************************************************)
(* Inputs of search_listings: params and raw listings                      *)
(***************************************************************************)
\* one dict of the dicts in F, which hold different keys
MergeAll(F) ==
    [k \in UNION {DOMAIN f : f \in F} |-> (CHOOSE f \in F : k \in DOMAIN f)[k]]

\* the sets of at most n dicts of S that hold different keys
RECURSIVE Combos(_, _)
Combos(S, n) ==
    IF n = 0 THEN {{}}
    ELSE Combos(S, n - 1) \cup
         {F \cup {f} : <<F, f>> \in
              {c \in Combos(S, n - 1) \X S :
                  \A g \in c[1] : DOMAIN g \cap DOMAIN c[2] = {}}}

BedInfoEntry(body) == PyDict([type |-> PyStr(T_BEDINFO), body |-> body])

\* what a raw listing can say about its beds, or leave out
BedFragments ==
    { [beds |-> PyInt(1)], [beds |-> PyInt(3)], [beds |-> PyStr(<<"3">>)],
      [beds |-> PyStr(<<"x">>)], [beds |-> PyNone],
      [bedCount |-> PyInt(1)], [min_beds |-> PyInt(4)],
      [beds |-> PyStr(<<"x">>), bedCount |-> PyInt(1)],
      [structuredContent |-> PyDict([mapPrimaryLine |-> PyList(<<BedInfoEntry(PyStr(<<"1", " ", "b", "e", "d">>))>>)])],
      [structuredContent |-> PyDict([mapPrimaryLine |-> PyList(<<BedInfoEntry(PyStr(<<"3", " ", "b", "e", "d", "s">>))>>)])],
      [structuredContent |-> PyDict([primaryLine |-> PyList(<<PyStr(<<"2", " ", "b", "e", "d", "r", "o", "o", "m", "s", " ", "3", " ", "B", "e", "d", "s">>)>>)])],
      [structuredContent |-> PyDict([mapPrimaryLine |-> PyList(<<BedInfoEntry(PyStr(<<"S", "t", "u", "d", "i", "o">>))>>)])] }

\* values of a type the code does not expect
OddFragments ==
    { [badges |-> PyInt(5)], [badges |-> PyBool(TRUE)],
      [badges |-> PyStr(T_GUEST_FAVORITE)], [badges |-> PyNone],
      [structuredContent |-> PyStr(<<"a", "b", "c">>)], [structuredContent |-> PyInt(7)],
      [structuredContent |-> PyDict([mapPrimaryLine |-> PyInt(5)])],
      [structuredContent |-> PyDict([mapPrimaryLine |-> PyList(<<BedInfoEntry(PyInt(3))>>)])],
      [location |-> PyStr(<<"h", "e", "r", "e">>)], [location |-> PyInt(3)],
      [price |-> PyInt(100)], [photos |-> PyStr(<<"p">>)], [id |-> PyStr(<<"x">>)] }

\* the fields the normalisation reads, under one of their keys
FieldFragments ==
    { [badges |-> PyList(<<PyStr(T_GUEST_FAVORITE)>>)],
      [badges |-> PyList(<<PyStr(<<"S", "u", "p", "e", "r", "h", "o", "s", "t">>), PyStr(<<"t", "o", "p", "_", "g", "u", "e", "s", "t", "_", "f", "a", "v", "o", "r", "i", "t", "e">>)>>)],
      [badges |-> PyList(<<PyStr(<<"I", "n", "s", "t", "a", "n", "t", " ", "b", "o", "o", "k">>), PyInt(7)>>)],
      [location |-> PyDict([lat |-> PyInt(1), lng |-> PyInt(2)])],
      [coordinates |-> PyDict([latitude |-> PyInt(1), longitude |-> PyInt(2)])],
      [rating |-> PyDict([value |-> PyInt(4), reviewCount |-> PyStr(<<"1", "2">>)])],
      [stars |-> PyInt(5)], [review_count |-> PyInt(3)],
      [reviewsCount |-> PyInt(0)],
      [reviewsCount |-> PyInt(0), rating |-> PyDict([value |-> PyInt(4), reviewCount |-> PyStr(<<"1", "2">>)])],
      [reviewsCount |-> PyInt(7), score |-> PyDict([value |-> PyInt(4), reviewCount |-> PyInt(9)])],
      [reviewsCount |-> PyInt(7), review_count |-> PyInt(3)],
      [score |-> PyDict([value |-> PyInt(4), reviewCount |-> PyInt(9)])],
      [location |-> PyDict([lat |-> PyInt(0), lng |-> PyInt(0)])],
      [location |-> PyDict([lat |-> PyInt(0), latitude |-> PyInt(5), lng |-> PyInt(2)])],
      [location |-> PyDict([lat |-> PyInt(1), latitude |-> PyInt(5), lng |-> PyInt(2), longitude |-> PyInt(6)])],
      [coordinates |-> PyDict([latitude |-> PyInt(0), longitude |-> PyInt(3)])],
      [title |-> PyStr(<<"E", "n", "t", "i", "r", "e", " ", "h", "o", "m", "e">>)], [name |-> PyStr(<<"M", "o", "n", "t", "h", "l", "y", " ", "s", "t", "a", "y">>)],
      [roomType |-> PyStr(<<"P", "r", "i", "v", "a", "t", "e", " ", "r", "o", "o", "m">>)],
      [price |-> PyDict([unit |-> PyDict([qualifier |-> PyStr(<<"m", "o", "n", "t", "h">>)])])],
      [long_stay_discount |-> PyBool(TRUE)],
      [host |-> PyDict([is_superhost |-> PyBool(TRUE)])],
      [host_is_superhost |-> PyBool(TRUE)],
      [images |-> PyList(<<PyStr(<<"p">>)>>)],
      [type |-> PyStr(<<"E", "n", "t", "i", "r", "e", " ", "h", "o", "m", "e">>)],
      [roomType |-> PyStr(<<"H", "o", "m", "e", "s", "t", "a", "y">>)],
      [summary |-> PyStr(<<"h", "o", "m", "e", "y">>)],
      [summary |-> PyStr(<<"a", "n", " ", "a", "p", "t">>)],
      [structuredContent |-> PyDict([secondaryLine |-> PyList(<<PyStr(<<"H", "o", "u", "s", "e">>)>>)])],
      [badges |-> PyList(<<PyStr(<<"E", "n", "t", "i", "r", "e">>)>>)],
      [isInstantBookable |-> PyBool(FALSE), isGuestFavorite |-> PyBool(FALSE), badges |-> PyList(<<PyStr(<<"i", "n", "s", "t", "a", "n", "t">>)>>)] }

\* the flags a raw listing can carry
FlagFragments ==
    { [is_guest_favorite |-> PyBool(TRUE)], [ib |-> PyBool(TRUE)],
      [isInstantBookable |-> PyBool(TRUE)], [entire_place |-> PyBool(TRUE)] }

\* bound: the flags one raw listing carries
MaxFlags == 1

\* a raw listing: at most one fragment about a field, and flags
RawListings ==
    { MergeAll(F \cup G) :
        F \in Combos(BedFragments \cup OddFragments \cup FieldFragments, 1),
        G \in Combos(FlagFragments, MaxFlags) }

\* the raw listings of the longer result lists
FewListings ==
    { MergeAll({}), [beds |-> PyInt(1)], [beds |-> PyInt(3)],
      [badges |-> PyList(<<PyStr(T_GUEST_FAVORITE)>>)], [ib |-> PyBool(TRUE)],
      [badges |-> PyInt(5)] }

\* bound: the raw listings one search gives
MaxListings == 2

\* the listing at position i of a result list has id i, unless it has one
WithId(l, i) == [k \in DOMAIN l \cup {"id"} |-> IF k \in DOMAIN l THEN l[k] ELSE PyInt(i)]
Numbered(ls) == PyList([i \in 1..Len(ls) |-> PyDict(WithId(ls[i], i))])

\* what the search call gave: a list, None, or an exception
IsFound(f) ==
    \/ f = Ok(PyNone)
    \/ f = Raise("Exception")
    \/ f = Ok(EmptyList)
    \/ \E l \in RawListings : f = Ok(Numbered(<<l>>))
    \/ \E k \in 2..MaxListings : \E ls \in [1..k -> FewListings] : f = Ok(Numbered(ls))

\* what params can hold
ParamFragments ==
    { [search_url |-> PyStr(<<"h", "t", "t", "p", "s", ":", "/", "/", "w", "w", "w", ".", "a", "i", "r", "b", "n", "b", ".", "c", "o", "m", "/", "s", "/", "h", "o", "m", "e", "s", "?", "m", "i", "n", "_", "b", "e", "d", "s", "=", "2">>)],
      [search_url |-> EmptyStr],
      [min_beds |-> PyInt(2)], [min_beds |-> PyStr(<<"2">>)], [min_beds |-> PyInt(0)],
      [guest_favorite |-> PyBool(TRUE)], [instant_book |-> PyBool(TRUE)],
      [monthly_search |-> PyBool(TRUE)],
      [monthly_start_date |-> PyStr(<<"2", "0", "2", "6", "-", "0", "3", "-", "0", "1">>)],
      [monthly_start_date |-> PyStr(<<"2", "0", "2", "6", "-", "0", "3", "-", "0", "1">>),
       check_in |-> PyStr(<<"2", "0", "2", "6", "-", "0", "3", "-", "0", "3">>), check_out |-> PyStr(<<"2", "0", "2", "6", "-", "0", "3", "-", "1", "0">>)],
      [currency |-> PyStr(<<"E", "U", "R">>)] }

\* bound: the keys params holds
MaxParams == 2

IsParams(p) == \E F \in Combos(ParamFragments, MaxParams) : p = PyDict(MergeAll(F))

\* params of the fallback path: a zoom or not, a zoom_level or not, and the
\* four coordinates there or not, as numbers or strings
ZoomValues ==
    { PyNone, PyInt(0), PyInt(5), PyInt(12), PyInt(14), PyInt(16), PyInt(20),
      PyStr(<<"1", "4", ".", "5">>), PyStr(<<"1", "6", ".", "5">>), PyStr(<<"-", "3", ".", "5">>),
      PyStr(<<"a", "b", "c">>), EmptyStr, PyList(<<PyInt(1)>>), PyBool(TRUE) }
ZoomFragments ==
    {EmptyDict.d} \cup {[zoom |-> z] : z \in ZoomValues}
ZoomLevelFragments ==
    {EmptyDict.d, [zoom_level |-> PyInt(13)], [zoom_level |-> PyStr(<<"a", "b", "c">>)]}
BoxFragments ==
    { MergeAll({a, b, c, d}) :
        a \in {EmptyDict.d, [ne_lat |-> PyInt(40)]},
        b \in {EmptyDict.d, [ne_long |-> PyInt(0)], [ne_long |-> PyStr(<<"0">>)],
               [ne_long |-> PyInt(-73)]},
        c \in {EmptyDict.d, [sw_lat |-> PyNone], [sw_lat |-> PyInt(39)]},
        d \in {EmptyDict.d, [sw_long |-> PyInt(-74)]} }
IsZoomParams(p) ==
    \E z \in ZoomFragments, zl \in ZoomLevelFragments, b \in BoxFragments :
        p = PyDict(MergeAll({z, zl, b}))

(***************************************************************************)
(* State machines                                                          *)
(***************************************************************************)
NumThreads == 2
Threads == 1..NumThreads

IdleBuild  == qs = Q(<<>>) /\ built = NotCalled
IdleCache  == cached_hash = NoHash /\ hashFetches = 0 /\ hashReturns = <<>> /\ scan = NoScan
IdleSearch ==
    /\ pc = "idle" /\ searches = 0 /\ arg_hash = "None" /\ op_hash = "None"
    /\ api_key = "None" /\ keyFetches = 0 /\ cursor = "" /\ page = 0
    /\ all_results = <<>> /\ requests = <<>> /\ responses = <<>>
    /\ outcome = NoOutcome
IdleThreads == tpc = [t \in Threads |-> "unused"] /\ tret = [t \in Threads |-> NoHash]
IdleScan == net = NoNet /\ resolved = NotScanned
IdleMain == written = NoFile /\ exit_code = "not_exited"
IdleListings ==
    /\ params = EmptyDict /\ found = NotCalled /\ formatted = NotCalled
    /\ zoom_handed = NoZoom /\ IdleMain

(* build_raw_params alone: one call on one query string *)
InitBuild ==
    /\ QsInputs(qs)
    /\ built = NotCalled
    /\ IdleCache /\ IdleSearch /\ IdleThreads /\ IdleListings /\ IdleScan

BuildRawParams ==
    /\ built = NotCalled
    /\ built' = build_raw_params(qs)
    /\ UNCHANGED <<scanVars, qs, cacheVars, searchVars, threadVars, listingVars>>

NextBuild == BuildRawParams

SpecBuild == InitBuild /\ [][NextBuild]_vars

(* one process calling search_from_url up to MaxSearches times, one call    *)
(* after the other                                                          *)
Init == IdleBuild /\ IdleCache /\ IdleSearch /\ IdleThreads /\ IdleListings /\ IdleScan

\* search_from_url up to the while loop: resolve the signature, parse the
\* URL, build the filter list, fetch the api key
SearchStart ==
    /\ pc \in {"idle", "done"}
    /\ searches < MaxSearches
    /\ \E ub \in UrlBuilds, h \in ArgHashes, live \in Scans, key \in ApiKeys \cup {"None"} :
        LET resolve == not_op_hash(h)
            g  == get_op_hash(cached_hash, live)
            q  == ub.qs
            b  == ub.built
            hashRaised == resolve /\ g.fetched /\ live.how = "raised"
            reachedKey == ~hashRaised /\ b.exc = "none"
        IN
        /\ searches' = searches + 1
        /\ arg_hash' = h
        /\ op_hash' = IF resolve THEN g.ret ELSE h
        /\ cached_hash' = IF resolve THEN g.cache ELSE cached_hash
        /\ hashFetches' = IF resolve /\ g.fetched THEN hashFetches + 1 ELSE hashFetches
        /\ hashReturns' = IF resolve /\ ~hashRaised THEN Append(hashReturns, g.ret) ELSE hashReturns
        /\ scan' = IF resolve /\ g.fetched THEN live ELSE scan
        /\ qs' = IF hashRaised THEN Q(<<>>) ELSE q
        /\ built' = IF hashRaised THEN NotCalled ELSE b
        /\ keyFetches' = IF reachedKey THEN 1 ELSE 0
        /\ api_key' = IF reachedKey THEN key ELSE "None"
        /\ cursor' = ""
        /\ page' = 0
        /\ all_results' = <<>>
        /\ requests' = <<>>
        /\ responses' = <<>>
        /\ IF hashRaised THEN pc' = "done" /\ outcome' = Raises("HashError")
           ELSE IF b.exc # "none" THEN pc' = "done" /\ outcome' = Raises(b.exc)
           ELSE IF get_api_key(key).exc # "none"
                THEN pc' = "done" /\ outcome' = Raises(get_api_key(key).exc)
           ELSE pc' = "paging" /\ outcome' = NoOutcome
    /\ UNCHANGED <<scanVars, threadVars, listingVars>>

\* one iteration of the while loop
FetchPage ==
    /\ pc = "paging"
    /\ page < MaxPages
    /\ \E resp \in Responses(page + 1) :
        LET req  == Request(api_key, cursor, built.val, Currency, Language, op_hash)
            data == search_page(resp)
        IN
        /\ page' = page + 1
        /\ requests' = Append(requests, req)
        /\ responses' = Append(responses, resp)
        /\ IF data.exc # "none"
           THEN /\ pc' = "done"
                /\ outcome' = Raises(data.exc)
                /\ UNCHANGED <<cursor, all_results>>
           ELSE LET results     == from_search(data.val)
                    next_cursor == next_page_cursor(data.val)
                    s           == loop_step(results, next_cursor, all_results)
                IN /\ all_results' = s.all
                   /\ IF s.stop
                      THEN pc' = "done" /\ outcome' = Returns(s.all) /\ UNCHANGED cursor
                      ELSE pc' = "paging" /\ outcome' = NoOutcome /\ cursor' = next_cursor
    /\ UNCHANGED <<scanVars, buildVars, cacheVars, listingVars, searches, arg_hash, op_hash, api_key,
                   keyFetches, threadVars>>

Next == SearchStart \/ FetchPage

Spec == Init /\ [][Next]_vars

\* the same process, with a loop that goes on: `while True` runs its next
\* iteration whenever the one before did not break or raise
SpecLive == Init /\ [][Next]_vars /\ WF_vars(FetchPage)

(* fetch_live_hash alone: one call in some environment *)
InitScan ==
    /\ IdleBuild /\ IdleCache /\ IdleSearch /\ IdleThreads /\ IdleListings
    /\ net \in Envs
    /\ resolved = NotScanned

FetchLiveHash ==
    /\ resolved = NotScanned
    /\ resolved' = fetch_live_hash(net)
    /\ UNCHANGED <<net, buildVars, cacheVars, searchVars, threadVars, listingVars>>

NextScan == FetchLiveHash

SpecScan == InitScan /\ [][NextScan]_vars

(* get_op_hash called by NumThreads threads of one process at once         *)
InitHash ==
    /\ IdleBuild /\ IdleCache /\ IdleSearch /\ IdleListings /\ IdleScan
    /\ tpc = [t \in Threads |-> "start"]
    /\ tret = [t \in Threads |-> NoHash]

\* if _cached_hash is None:
CheckCache(t) ==
    /\ tpc[t] = "start"
    /\ tpc' = [tpc EXCEPT ![t] = IF cached_hash = NoHash THEN "fetching" ELSE "returning"]
    /\ UNCHANGED <<scanVars, tret, buildVars, cacheVars, searchVars, listingVars>>

\* _cached_hash = fetch_live_hash(proxy_url): the call, ended by the store
FetchAndStore(t) ==
    /\ tpc[t] = "fetching"
    /\ \E live \in Scans :
        /\ cached_hash' = live.hash
        /\ scan' = live
    /\ hashFetches' = hashFetches + 1
    /\ tpc' = [tpc EXCEPT ![t] = "returning"]
    /\ UNCHANGED <<scanVars, tret, hashReturns, buildVars, searchVars, listingVars>>

\* return _cached_hash
ReturnHash(t) ==
    /\ tpc[t] = "returning"
    /\ tret' = [tret EXCEPT ![t] = cached_hash]
    /\ hashReturns' = Append(hashReturns, cached_hash)
    /\ tpc' = [tpc EXCEPT ![t] = "returned"]
    /\ UNCHANGED <<scanVars, cached_hash, hashFetches, scan, buildVars, searchVars, listingVars>>

NextHash == \E t \in Threads : CheckCache(t) \/ FetchAndStore(t) \/ ReturnHash(t)

SpecHash == InitHash /\ [][NextHash]_vars

\* search_listings alone: one call on some params and some search result
InitListings ==
    /\ IdleBuild /\ IdleCache /\ IdleSearch /\ IdleThreads /\ IdleScan
    /\ IsParams(params)
    /\ IsFound(found)
    /\ formatted = NotCalled
    /\ zoom_handed = NoZoom
    /\ IdleMain

SearchListings ==
    /\ formatted = NotCalled
    /\ formatted' = search_listings(params, found)
    /\ zoom_handed' = search_all_zoom(params)
    /\ UNCHANGED <<scanVars, params, found, written, exit_code, buildVars, cacheVars, searchVars,
                   threadVars>>

NextListings == SearchListings

SpecListings == InitListings /\ [][NextListings]_vars

\* search_listings on the fallback path, over the zoom and the bounding box
\* params can hold
InitZoom ==
    /\ IdleBuild /\ IdleCache /\ IdleSearch /\ IdleThreads /\ IdleScan
    /\ IsZoomParams(params)
    /\ found \in {Ok(EmptyList), Ok(Numbered(<<MergeAll({})>>)), Raise("Exception")}
    /\ formatted = NotCalled
    /\ zoom_handed = NoZoom
    /\ IdleMain

SpecZoom == InitZoom /\ [][NextListings]_vars

\* the process of search_listings.py: one run of main() on some command line,
\* some input file and some search result
MainEnds(m) ==
    /\ formatted' = m.call
    /\ zoom_handed' = m.zoom
    /\ written' = m.file
    /\ exit_code' = m.exit

Main ==
    /\ exit_code = "not_exited"
    /\ \E argc \in ArgCounts, loads \in BOOLEAN : MainEnds(main(argc, loads, params, found))
    /\ UNCHANGED <<scanVars, params, found, buildVars, cacheVars, searchVars, threadVars>>

NextMain == Main

SpecMain == InitListings /\ [][NextMain]_vars

(***************************************************************************)
(* Reading a built filter list                                             *)
(***************************************************************************)
Count(raw, name) == Cardinality({i \in 1..Len(raw) : raw[i].filterName = name})

Returned == built.exc = "none"
Called   == built.exc # "not_called"

BBoxNames == {"searchByMap", "neLat", "neLng", "swLat", "swLng", "zoomLevel"}

\* the value a coordinate has in the query string: that of its first name if
\* the query string holds it, else that of its other name
CoordOf(names) ==
    IF qs[names[1]] # <<>> THEN qs[names[1]][1]
    ELSE IF qs[names[2]] # <<>> THEN qs[names[2]][1] ELSE <<>>

Coords ==
    { <<"ne_lat", "ne_lat">>, <<"ne_lng", "ne_long">>,
      <<"sw_lat", "sw_lat">>, <<"sw_lng", "sw_long">> }

AllFourPresent == \A c \in Coords : CoordOf(c) # <<>>
ZoomSupplied == qs["zoom_level"] # <<>> \/ qs["zoom"] # <<>>

\* C1: in a returned filter list the six bounding-box entries are all absent
\* when a coordinate is absent or empty, whatever the zoom, and each present
\* exactly once when all four coordinates are present and non-empty.
C1_BBoxAllOrNothing ==
    Returned =>
        IF AllFourPresent
        THEN \A n \in BBoxNames : Count(built.val, n) = 1
        ELSE \A n \in BBoxNames : Count(built.val, n) = 0

\* three coordinates present, one empty, a zoom supplied, and the call returned
C1_Witness ==
    /\ Returned
    /\ ZoomSupplied
    /\ Cardinality({c \in Coords : CoordOf(c) # <<>>}) = 3
    /\ qs["sw_lng"] = << <<>> >>

WellFormedPositive(v) == ParseInt(v).ok /\ ParseInt(v).v > 0

\* C2: a malformed date or a non-numeric price, guest, property-minimum or
\* zoom value never aborts the build: every call returns a list, and the list
\* holds every filter whose own value is well formed.
C2_MalformedValueNeverAborts ==
    Called =>
        /\ Returned
        /\ \A n \in IntFilterNames :
              (qs[n] # <<>> /\ WellFormedPositive(qs[n][1])) => Count(built.val, n) = 1
        /\ qs["place_id"] # <<>> => Count(built.val, "placeId") = 1

\* C11: in a returned filter list each of the eight positive-integer filters
\* has exactly one entry, whose single value is the input string unchanged,
\* when its value is an integer above 0, and no entry when its value is 0,
\* negative, empty or absent, whatever the other seven hold.
C11_PositiveIntOrOmit ==
    Returned =>
        \A n \in IntFilterNames :
            LET v == first(qs, n, None) IN
            IF Truthy(v) /\ WellFormedPositive(v)
            THEN /\ Count(built.val, n) = 1
                 /\ \A i \in 1..Len(built.val) :
                       built.val[i].filterName = n => built.val[i].filterValues = <<v>>
            ELSE Count(built.val, n) = 0

\* price_min is "0" and has no entry, next to adults "2" with its entry
C11_Witness ==
    /\ Returned
    /\ qs["price_min"] = <<V_0>> /\ Count(built.val, "price_min") = 0
    /\ qs["adults"] = <<V_2>>
    /\ \E i \in 1..Len(built.val) : built.val[i] = Entry("adults", <<V_2>>)

FlagNames == {"ib", "guest_favorite", "flexible_cancellation"}

\* C12: in a returned filter list a flag that is "false" or absent has no
\* entry, and a flag that is "true" has exactly one entry, with the value
\* ["true"], whatever selected_filter_order[] holds.
C12_FlagsOnlyWhenTrue ==
    Returned =>
        \A n \in FlagNames :
            /\ (qs[n] = <<>> \/ qs[n][1] = S_false) => Count(built.val, n) = 0
            /\ (qs[n] # <<>> /\ qs[n][1] = S_true)
               => /\ Count(built.val, n) = 1
                  /\ \E i \in 1..Len(built.val) : built.val[i] = Entry(n, << S_true >>)

\* selected_filter_order[] names ib while the ib flag is absent and has no
\* entry; flexible_cancellation is true and has its entry
C12_Witness ==
    /\ Returned
    /\ qs["selected_filter_order[]"] = << S_ib >>
    /\ qs["ib"] = <<>> /\ Count(built.val, "ib") = 0
    /\ qs["flexible_cancellation"] = << S_true >>
    /\ Count(built.val, "flexible_cancellation") = 1

DateNames == {"checkin", "checkout", "priceFilterNumNights"}

\* the value of the one entry of that name
ValueOf(raw, name) ==
    raw[CHOOSE i \in 1..Len(raw) : raw[i].filterName = name].filterValues

BothDates == qs["checkin"] # <<>> /\ qs["checkin"][1] # <<>>
             /\ qs["checkout"] # <<>> /\ qs["checkout"][1] # <<>>

\* C13: in a returned filter list checkin, checkout and priceFilterNumNights
\* have one entry each when both dates are present and none otherwise; the
\* entries hold the two dates as given and the number of days from checkin to
\* checkout (7 from 2026-03-03 to 2026-03-10, 741 from 2024-02-28).
C13_DatesTogether ==
    Returned =>
        IF BothDates
        THEN /\ \A n \in DateNames : Count(built.val, n) = 1
             /\ ValueOf(built.val, "checkin") = << qs["checkin"][1] >>
             /\ ValueOf(built.val, "checkout") = << qs["checkout"][1] >>
             /\ ValueOf(built.val, "priceFilterNumNights")
                   = << IntToStr(ParseDate(qs["checkout"][1]).ord
                                 - ParseDate(qs["checkin"][1]).ord) >>
             /\ (qs["checkin"][1] = D_0303 /\ qs["checkout"][1] = D_0310)
                => ValueOf(built.val, "priceFilterNumNights") = << <<"7">> >>
             /\ (qs["checkin"][1] = D_0228 /\ qs["checkout"][1] = D_0310)
                => ValueOf(built.val, "priceFilterNumNights") = << <<"7", "4", "1">> >>
        ELSE \A n \in DateNames : Count(built.val, n) = 0

\* a place with both dates, seven nights apart, and no bounding box
C13_Witness ==
    /\ Returned
    /\ qs["place_id"] = << V_X >> /\ ~AllFourPresent
    /\ qs["checkin"] = << D_0303 >> /\ qs["checkout"] = << D_0310 >>
    /\ ValueOf(built.val, "priceFilterNumNights") = << <<"7">> >>
    /\ Count(built.val, "searchByMap") = 0

\* the zoom the query string supplies: zoom_level, else zoom, else "12"
SuppliedZoom ==
    IF qs["zoom_level"] # <<>> THEN qs["zoom_level"][1]
    ELSE IF qs["zoom"] # <<>> THEN qs["zoom"][1] ELSE S_12

\* the floor of a float: the largest integer not above it
FloorOfFloat(f) == IF f.neg /\ f.frac THEN -f.ip - 1 ELSE IF f.neg THEN -f.ip ELSE f.ip

\* C14: in a returned filter list with all four coordinates present, the
\* zoomLevel entry holds the floor of the supplied zoom (zoom_level before
\* zoom, "12" when neither is there), for negative values too.
C14_ZoomFloored ==
    (Returned /\ AllFourPresent)
    => ValueOf(built.val, "zoomLevel")
         = << IntToStr(FloorOfFloat(ParseFloat(SuppliedZoom))) >>

\* the call on the same query string without selected_filter_order[]
WithoutFilterOrder == build_raw_params([qs EXCEPT !["selected_filter_order[]"] = <<>>])

\* C20: the call ends as it does without selected_filter_order[]; a returned
\* filter list is the list built without selected_filter_order[], unchanged,
\* followed by one selected_filter_order entry per value, in the order given.
C20_FilterOrderLast ==
    Called =>
        /\ built.exc = WithoutFilterOrder.exc
        /\ Returned =>
              LET base  == WithoutFilterOrder.val
                  order == qs["selected_filter_order[]"]
              IN /\ Count(base, "selected_filter_order") = 0
                 /\ Len(built.val) = Len(base) + Len(order)
                 /\ SubSeq(built.val, 1, Len(base)) = base
                 /\ \A i \in 1..Len(order) :
                       built.val[Len(base) + i] = Entry("selected_filter_order", << order[i] >>)

\* two values in selected_filter_order[], the first naming the ib flag, and
\* filters of other kinds before their two entries
C20_Witness ==
    /\ Returned
    /\ qs["selected_filter_order[]"] = << S_ib, V_X >>
    /\ qs["room_types[]"] # <<>> /\ qs["guest_favorite"] = << S_true >>
    /\ built.val[Len(built.val)] = Entry("selected_filter_order", << V_X >>)
    /\ built.val[Len(built.val) - 1] = Entry("selected_filter_order", << S_ib >>)

(***************************************************************************)
(* Reading the page log of a search                                        *)
(***************************************************************************)
\* a regular page: status 200 and no errors array
IsPage(r) == ~r.transport /\ r.status = 200 /\ ~r.errors

HasCursor(r) == r.nextPageCursor \notin {"None", ""}

\* the listings of the first n pages, in order
RECURSIVE Concat(_, _)
Concat(rs, n) == IF n = 0 THEN <<>> ELSE Concat(rs, n - 1) \o rs[n].listings

\* pages 1..n-1 are regular pages with listings and a next-page cursor
Continuing(n) ==
    \A i \in 1..(n - 1) :
        IsPage(responses[i]) /\ responses[i].listings # <<>> /\ HasCursor(responses[i])

\* search_listings was called on lists of raw listings and returned a list
ListingsReturned == found.exc = "none" /\ formatted.exc = "none"

\* the raw listings the search call gave
RawOf == PyOr(found.val, EmptyList).l

\* the formatted list holds the raw listing at position i
InOutput(i) ==
    \E j \in 1..Len(formatted.val) :
        formatted.val[j].id = listing_id(pick(RawOf[i], <<"id", "room_id", "roomId", "listingId">>))

UsingUrl == using_url(params)

\* min_beds is the one post-filter params asks for
MinBedsOnly ==
    /\ PyTruthy(Get(params, "min_beds"))
    /\ \A k \in {"guest_favorite", "instant_book", "monthly_search", "monthly_start_date"} :
          ~PyTruthy(Get(params, k))

WantMinBeds == PyIntOf(Get(params, "min_beds")).val

\* a raw listing without bed information: beds, min_beds and bedCount are null
\* and no line of structuredContent holds bed text
NoBedText(x) ==
    \/ x.t = "none"
    \/ x.t = "list" /\ \A i \in 1..Len(x.l) : ~BedNumber(PyStrOf(BodyOf(x.l[i]))).found
NoBedInfo(l) ==
    /\ \A k \in {"beds", "min_beds", "bedCount"} : Get(l, k).t = "none"
    /\ \/ Get(l, "structuredContent").t = "none"
       \/ /\ Get(l, "structuredContent").t = "dict"
          /\ \A k \in {"mapPrimaryLine", "primaryLine"} :
                NoBedText(Get(Get(l, "structuredContent"), k))

\* C3 (as stated): with min_beds requested, a raw listing without bed
\* information is kept when search_url is set and dropped from the output when
\* it is not.
C3_NoBedInfoDroppedOnFallback ==
    (ListingsReturned /\ MinBedsOnly)
    => \A i \in 1..Len(RawOf) : NoBedInfo(RawOf[i]) => (InOutput(i) <=> UsingUrl)

\* C3 (amended): with min_beds requested, a raw listing without bed
\* information is kept on both paths; the fallback path drops only a listing
\* whose bed count is known and below min_beds, the URL path drops none.
C3_NoBedInfoKept ==
    (ListingsReturned /\ MinBedsOnly)
    => \A i \in 1..Len(RawOf) :
          /\ NoBedInfo(RawOf[i]) => InOutput(i)
          /\ Get(RawOf[i], "beds").t = "int"
             => (InOutput(i) <=> (UsingUrl \/ Get(RawOf[i], "beds").n >= WantMinBeds))

\* the fallback path with min_beds requested has returned a list that holds a
\* raw listing without bed information, next to none of a listing with one bed
C3_Witness ==
    /\ ListingsReturned /\ MinBedsOnly /\ ~UsingUrl
    /\ Len(RawOf) = 2
    /\ NoBedInfo(RawOf[1]) /\ InOutput(1)
    /\ Get(RawOf[2], "beds") = PyInt(1) /\ ~InOutput(2)

\* C4: when the n-th page of a search is a regular page with zero listings
\* (the earlier pages having listings and a cursor), the search has ended, it
\* returned the concatenation of the earlier pages' listings in order, and the
\* n-th request is the last one posted.
C4_StopsOnEmptyPage ==
    \A n \in 1..Len(responses) :
        (Continuing(n) /\ IsPage(responses[n]) /\ responses[n].listings = <<>>)
        => /\ Len(requests) = n
           /\ pc = "done"
           /\ outcome = Returns(Concat(responses, n - 1))

\* a third page that is empty although it carries a cursor, after two full pages
C4_Witness ==
    /\ Len(responses) = 3
    /\ Continuing(3)
    /\ IsPage(responses[3]) /\ responses[3].listings = <<>> /\ HasCursor(responses[3])
    /\ outcome.kind = "returned" /\ Len(outcome.val) = 4

\* C5: when the n-th page of a search is a regular page with listings but an
\* empty or missing cursor (the earlier pages having listings and a cursor),
\* exactly n requests were posted and the search returned the listings of all
\* n pages, the last page's included.
C5_LastPageIncluded ==
    \A n \in 1..Len(responses) :
        (Continuing(n) /\ IsPage(responses[n]) /\ responses[n].listings # <<>>
           /\ ~HasCursor(responses[n]))
        => /\ Len(requests) = n
           /\ pc = "done"
           /\ outcome = Returns(Concat(responses, n))

\* three pages of 2, 2 and 1 listings, the last one without a cursor: 5 listings
C5_Witness ==
    /\ Len(responses) = 3 /\ Len(requests) = 3
    /\ Continuing(3)
    /\ Len(responses[1].listings) = 2 /\ Len(responses[2].listings) = 2
    /\ Len(responses[3].listings) = 1 /\ responses[3].nextPageCursor = "None"
    /\ outcome.kind = "returned" /\ Len(outcome.val) = 5

\* C6: a response with status 200 whose body carries an errors array makes the
\* search fail with an error; it never becomes a returned list, and the search
\* does not go on.
C6_UpstreamErrorsSurface ==
    \A i \in 1..Len(responses) :
        (~responses[i].transport /\ responses[i].status = 200 /\ responses[i].errors)
        => pc = "done" /\ outcome.kind = "raised"

\* C7: over the get_op_hash calls of one process, made one after the other,
\* fetch_live_hash runs at most once, on the first call, and every call
\* returns what the first returned, also when that is DEFAULT_HASH.
C7_ResolvedOnce ==
    /\ hashFetches <= 1
    /\ hashFetches = (IF hashReturns = <<>> THEN 0 ELSE 1)
    /\ \A i \in 1..Len(hashReturns) : hashReturns[i] = hashReturns[1]
    /\ hashReturns # <<>> => cached_hash = hashReturns[1]

\* two get_op_hash calls, the first of which degraded to DEFAULT_HASH
C7_Witness ==
    /\ Len(hashReturns) = 2
    /\ scan.how = "page_failed"
    /\ hashReturns[2] = DEFAULT_HASH

\* C8: with several callers in get_op_hash at once, _cached_hash never changes
\* once it is not None, and all callers return the same signature.
C8_ImmutableOnceSet ==
    /\ [][cached_hash # NoHash => cached_hash' = cached_hash]_vars
    /\ [](\A t1, t2 \in Threads :
            (tpc[t1] = "returned" /\ tpc[t2] = "returned") => tret[t1] = tret[t2])

\* C9: when the search-page fetch fails, or no asset listed on the page
\* answers 200 with the marker, fetch_live_hash returns DEFAULT_HASH and raises
\* nothing, and the search that made the call goes on with that signature.
C9_DegradesToDefault ==
    (scan.how # "not_called" /\ (scan.page # "ok" \/ ~scan.marker))
    => /\ scan.how # "raised"
       /\ scan.hash = DEFAULT_HASH
       /\ cached_hash = DEFAULT_HASH
       /\ outcome.err # "HashError"
       /\ arg_hash \in {"None", ""} => op_hash = DEFAULT_HASH

\* the page was fetched, no asset held the marker, and the search has posted a
\* request with the default signature
C9_Witness ==
    /\ scan.page = "ok" /\ ~scan.marker
    /\ requests # <<>>
    /\ requests[1].sha256Hash = DEFAULT_HASH


\* no post-filter is asked for: the loop over results is all that runs
NoPostFilter ==
    \A k \in {"guest_favorite", "instant_book", "min_beds", "monthly_search",
              "monthly_start_date"} : ~PyTruthy(Get(params, k))

\* the output fields of a raw listing that holds nothing but its id
DefaultsOf(row) ==
    /\ row.reviewsCount = PyInt(0) /\ row.photos = EmptyList /\ row.badges = EmptyList
    /\ \A k \in {"url", "name", "price", "rating", "roomType", "guests", "address",
                 "lat", "lng", "hostId", "hostName", "bedrooms", "beds"} : row[k] = PyNone
    /\ \A k \in {"isGuestFavorite", "instantBook", "isHome"} : row[k] = PyBool(FALSE)

\* C10: normalisation raises for no raw listing, wrongly-typed badges,
\* structuredContent or location included, and a raw listing that holds none
\* of the keys of a field gets the default of that field.
C10_NormalizationTotal ==
    (formatted.exc # "not_called" /\ found.exc = "none" /\ NoPostFilter)
    => /\ formatted.exc = "none"
       /\ \A i \in 1..Len(RawOf) :
             DOMAIN RawOf[i].d = {"id"} => DefaultsOf(formatted.val[i])


\* the ids of the formatted list, and those the raw listings get
OutIds == [j \in 1..Len(formatted.val) |-> formatted.val[j].id]
IdsOf(raws) ==
    [i \in 1..Len(raws) |-> listing_id(pick(raws[i], <<"id", "room_id", "roomId", "listingId">>))]

\* some badge of the listing holds the token, in whatever case
BadgeHolds(l, token) ==
    /\ Get(l, "badges").t = "list"
    /\ \E i \in 1..Len(Get(l, "badges").l) :
          Contains(Upper(PyStrOf(Get(l, "badges").l[i])), token)

FavoriteSignal(l) ==
    \/ PyTruthy(Get(l, "is_guest_favorite")) \/ PyTruthy(Get(l, "isGuestFavorite"))
    \/ BadgeHolds(l, T_GUEST_FAVORITE)

InstantSignal(l) ==
    \/ \E k \in {"ib", "instant_book", "is_instant_bookable", "isInstantBookable"} :
          PyTruthy(Get(l, k))
    \/ BadgeHolds(l, T_INSTANT)

Asked(k) == PyTruthy(Get(params, k))
MonthlyAsked ==
    \/ Asked("monthly_search")
    \/ Asked("monthly_start_date") /\ ~(Asked("check_in") /\ Asked("check_out"))

\* C15: with guest_favorite requested, on either path, every listing returned
\* has isGuestFavorite true, and where no other post-filter runs the listings
\* returned are the raw listings with a favorite signal, in their order.
C15_FavoriteAlwaysFiltered ==
    (ListingsReturned /\ Asked("guest_favorite"))
    => /\ \A j \in 1..Len(formatted.val) : formatted.val[j].isGuestFavorite = PyBool(TRUE)
       /\ (~MonthlyAsked /\ (UsingUrl \/ (~Asked("instant_book") /\ ~Asked("min_beds"))))
          => OutIds = IdsOf(SelectSeq(RawOf, FavoriteSignal))

\* the URL path with guest_favorite requested: of two raw listings the one
\* without a signal is gone and the one with the badge is returned
C15_Witness ==
    /\ ListingsReturned /\ Asked("guest_favorite") /\ UsingUrl
    /\ Len(RawOf) = 2
    /\ ~FavoriteSignal(RawOf[1]) /\ BadgeHolds(RawOf[2], T_GUEST_FAVORITE)
    /\ OutIds = << PyStr(<<"2">>) >>

\* C16: with instant_book requested, the URL path removes no listing for its
\* instant-book fields, and on the fallback path every listing returned has an
\* instant-book signal and instantBook true.
C16_InstantOnlyOnFallback ==
    (ListingsReturned /\ Asked("instant_book"))
    => IF UsingUrl
       THEN (~MonthlyAsked /\ ~Asked("guest_favorite")) => OutIds = IdsOf(RawOf)
       ELSE /\ \A j \in 1..Len(formatted.val) : formatted.val[j].instantBook = PyBool(TRUE)
            /\ \A i \in 1..Len(RawOf) : InOutput(i) => InstantSignal(RawOf[i])

\* the URL path with instant_book requested has returned a listing without
\* any instant-book signal
C16_Witness ==
    /\ ListingsReturned /\ Asked("instant_book") /\ UsingUrl
    /\ Len(RawOf) = 1 /\ DOMAIN RawOf[1].d = {"id"}
    /\ Len(formatted.val) = 1 /\ formatted.val[1].instantBook = PyBool(FALSE)


\* the place of a filter in the fixed order of the sections
SectionOf(name) ==
    CASE name \in {BaseParams[i].filterName : i \in 1..Len(BaseParams)} -> 1
      [] name \in {"searchByMap", "neLat", "neLng", "swLat", "swLng", "zoomLevel"} -> 2
      [] name = "placeId" -> 3
      [] name = "query" -> 4
      [] name \in {"checkin", "checkout", "priceFilterNumNights"} -> 5
      [] name \in {"price_min", "price_max"} -> 6
      [] name \in {"adults", "children", "infants"} -> 7
      [] name \in {"min_beds", "min_bedrooms", "min_bathrooms"} -> 8
      [] name = "room_types" -> 9
      [] name = "amenities" -> 10
      [] name \in FlagNames -> 11
      [] name = "selected_filter_order" -> 12
      [] OTHER -> 0

\* the entries of a filter list that have the given name, in list order
EntriesNamed(list, name) == SelectSeq(list, LAMBDA en : en.filterName = name)

\* C21: a returned filter list has one room_types entry per selected room
\* type, in selection order and with repeats kept; one amenities entry
\* holding the selected ids in selection order, or none when no amenity is
\* selected; and its entries follow the fixed order of the sections.
C21_MultiValuedAndSectionOrder ==
    Returned
    => /\ EntriesNamed(built.val, "room_types")
            = [i \in 1..Len(qs["room_types[]"]) |->
                   Entry("room_types", << qs["room_types[]"][i] >>)]
       /\ EntriesNamed(built.val, "amenities")
            = IF qs["amenities[]"] = <<>> THEN <<>>
              ELSE << Entry("amenities", qs["amenities[]"]) >>
       /\ \A i, j \in 1..Len(built.val) :
              i < j => /\ SectionOf(built.val[i].filterName) > 0
                       /\ SectionOf(built.val[i].filterName)
                            <= SectionOf(built.val[j].filterName)

\* every section is there, with a room type selected twice and two amenities
C21_Witness ==
    /\ Returned
    /\ qs["room_types[]"] = <<V_X, V_X>>
    /\ qs["amenities[]"] = <<V_14, V_2>>
    /\ {SectionOf(built.val[i].filterName) : i \in 1..Len(built.val)} = 1..12

\* a page that failed: a transport error or a status other than 200
Failed(r) == r.transport \/ r.status # 200

\* C17: once a page of a search has failed, the search has ended with an
\* error that carries no listing, and the failed request is the last one of
\* the search: it is not posted again and no later page is asked for.
C17_PageFailureIsFatal ==
    \A k \in 1..Len(responses) :
        Failed(responses[k])
        => /\ k = Len(responses) /\ Len(requests) = k
           /\ pc = "done"
           /\ outcome.kind = "raised" /\ outcome.val = <<>>

\* the second page failed after a first page with listings
C17_Witness ==
    /\ Len(responses) = 2
    /\ IsPage(responses[1]) /\ responses[1].listings # <<>> /\ all_results # <<>>
    /\ Failed(responses[2])
    /\ outcome.kind = "raised"

\* C18: a search whose key fetch failed has ended with an error, without a
\* request and without listings; a search that posts requests has fetched its
\* key once, and every request carries that key.
C18_KeyOncePerSearch ==
    /\ keyFetches <= 1
    /\ pc = "paging" => keyFetches = 1 /\ api_key # "None"
    /\ (keyFetches = 1 /\ api_key = "None")
       => /\ pc = "done" /\ outcome.kind = "raised" /\ outcome.val = <<>>
          /\ requests = <<>>
    /\ requests # <<>>
       => /\ keyFetches = 1 /\ api_key # "None"
          /\ \A i \in 1..Len(requests) : requests[i].api_key = api_key

\* the key fetch of the second search of the process failed
C18_Witness ==
    /\ searches = 2
    /\ keyFetches = 1 /\ api_key = "None"
    /\ built.exc = "none"
    /\ outcome.kind = "raised" /\ requests = <<>>

\* C19: in every request the map variant and the list variant hold the same
\* filter list, the one built from the URL, and the same cursor, the one the
\* page before handed out ("" on the first page); the signature of the URL
\* path is the sha256Hash of the persisted query.
C19_BothVariantsAlike ==
    \A i \in 1..Len(requests) :
        /\ requests[i].staysMapSearchRequestV2.rawParams = built.val
        /\ requests[i].staysSearchRequest.rawParams = built.val
        /\ requests[i].staysMapSearchRequestV2.cursor = requests[i].staysSearchRequest.cursor
        /\ requests[i].staysSearchRequest.cursor
             = IF i = 1 THEN "" ELSE responses[i - 1].nextPageCursor
        /\ requests[i].url_hash = requests[i].sha256Hash
        /\ requests[i].sha256Hash = op_hash

\* a second page was asked for, with the cursor of the first
C19_Witness ==
    /\ Len(requests) >= 2
    /\ requests[2].staysMapSearchRequestV2.cursor = "cursor_1"
    /\ requests[2].staysMapSearchRequestV2.rawParams # <<>>


\* main has ended
Exited == exit_code # "not_exited"

\* C22: a run of main ends in one of two ways.  Either it exits with 0 and
\* the output file is the list search_listings returned, which holds every
\* raw listing when no post-filter is asked for; or it exits with 1 and no
\* listing is delivered: the output file is an object with an error and an
\* empty results list, the error with which search_listings raised, or, for
\* a command line without the two file names, no file is written.
C22_ListOrError ==
    Exited
    => \/ /\ exit_code = "0"
          /\ formatted.exc = "none"
          /\ written = JsonList(formatted.val)
          /\ NoPostFilter
             => [j \in 1..Len(written.results) |-> written.results[j].id] = IdsOf(RawOf)
       \/ /\ exit_code = "1"
          /\ formatted.exc # "none"
          /\ written.results = <<>>
          /\ \/ written = NoFile /\ formatted = NotCalled
             \/ /\ written.shape = "object" /\ written.error # "none"
                /\ formatted.exc # "not_called" => written.error = formatted.exc

\* the second of two raw listings made the normalisation raise after the
\* first was formatted, and main wrote the error object
C22_Witness ==
    /\ Exited /\ NoPostFilter
    /\ found.exc = "none" /\ Len(RawOf) = 2
    /\ Get(RawOf[1], "badges").t = "none"
    /\ Get(RawOf[2], "badges") = PyInt(5)
    /\ formatted.exc \notin {"none", "not_called"}
    /\ written = ErrorObject(formatted.exc)


\* what a raw listing holds for the review count and the rating
DirectCount(l) == pick(l, <<"reviewsCount", "review_count">>)
RawRating(l) == pick(l, <<"rating", "stars", "score">>)
RatingCount(l) == IF RawRating(l).t = "dict" THEN Get(RawRating(l), "reviewCount") ELSE PyNone

\* C23: the output reviewsCount is the value under reviewsCount/review_count
\* when there is one, an explicit 0 included; the review count of a rating
\* object is used only when there is none; with no review count anywhere it is
\* 0; it is always a non-negative integer.  The output rating is the bare
\* number, or the value of the rating object.
C23_ReviewCount ==
    (ListingsReturned /\ NoPostFilter)
    => \A i \in 1..Len(RawOf) :
          /\ DirectCount(RawOf[i]).t # "none"
             => formatted.val[i].reviewsCount = DirectCount(RawOf[i])
          /\ (DirectCount(RawOf[i]).t = "none" /\ RatingCount(RawOf[i]).t # "none")
             => formatted.val[i].reviewsCount = RatingCount(RawOf[i])
          /\ (DirectCount(RawOf[i]).t = "none" /\ RatingCount(RawOf[i]).t = "none")
             => formatted.val[i].reviewsCount = PyInt(0)
          /\ formatted.val[i].reviewsCount.t = "int"
          /\ formatted.val[i].reviewsCount.n >= 0
          /\ formatted.val[i].rating
               = IF RawRating(RawOf[i]).t = "dict" THEN Get(RawRating(RawOf[i]), "value")
                 ELSE RawRating(RawOf[i])

\* what a raw listing holds for a coordinate, under its short and long key
LocationOf(l) == pick(l, <<"location", "coordinates">>)
CoordinateAt(l, key) == IF LocationOf(l).t = "dict" THEN Get(LocationOf(l), key) ELSE PyNone

\* C24: the output lat (lng) is the non-null value under lat (lng) when there
\* is one, 0 included, else the non-null value under latitude (longitude),
\* and null only when neither key holds a non-null value.
C24_CoordinatesFirstPresent ==
    (ListingsReturned /\ NoPostFilter)
    => \A i \in 1..Len(RawOf) :
          \A ks \in { <<"lat", "latitude">>, <<"lng", "longitude">> } :
              formatted.val[i][ks[1]]
                = IF CoordinateAt(RawOf[i], ks[1]).t # "none" THEN CoordinateAt(RawOf[i], ks[1])
                  ELSE CoordinateAt(RawOf[i], ks[2])


\* a text holds one of the home words as a word
HomeWord(x) == x.t = "str" /\ ContainsWord(x.s, HomeWords)

\* the text of a structured display line
LineText(entry) ==
    IF entry.t = "dict" THEN PyOr(Get(entry, "body"), EmptyStr)
    ELSE PyOr(PyStr(PyStrOf(entry)), EmptyStr)

\* the signals of isHome: the explicit fields, the room type (roomType, or
\* type when roomType is empty), the texts, the display lines, a badge label
HomeFieldSignal(l) == PyTruthy(Get(l, "entire_place")) \/ PyTruthy(Get(l, "is_entire_place"))
RoomTypeOf(l) == IF PyTruthy(Get(l, "roomType")) THEN Get(l, "roomType") ELSE Get(l, "type")
RoomTypeSignal(l) ==
    /\ RoomTypeOf(l).t = "str"
    /\ \E w \in { <<"e", "n", "t", "i", "r", "e">>, <<"h", "o", "m", "e">> } :
          Contains(Lower(RoomTypeOf(l).s), w)
TextSignal(l) == \E k \in {"name", "title", "summary"} : HomeWord(Get(l, k))
LineSignal(l) ==
    /\ Get(l, "structuredContent").t = "dict"
    /\ \E k \in {"primaryLine", "mapPrimaryLine", "secondaryLine", "mapSecondaryLine"} :
          /\ Get(Get(l, "structuredContent"), k).t = "list"
          /\ \E i \in 1..Len(Get(Get(l, "structuredContent"), k).l) :
                HomeWord(LineText(Get(Get(l, "structuredContent"), k).l[i]))
HomeBadgeSignal(l) ==
    /\ Get(l, "badges").t = "list"
    /\ \E i \in 1..Len(Get(l, "badges").l) :
          /\ Get(l, "badges").l[i].t = "str"
          /\ \E w \in { <<"H", "O", "M", "E">>, <<"E", "N", "T", "I", "R", "E">> } :
                Contains(Upper(Get(l, "badges").l[i].s), w)
HomeSignal(l) ==
    HomeFieldSignal(l) \/ RoomTypeSignal(l) \/ TextSignal(l) \/ LineSignal(l) \/ HomeBadgeSignal(l)

\* C25: in a returned list isGuestFavorite, instantBook and isHome of a
\* listing are each true exactly when one of the signals of that flag fires.
C25_FlagsAreOrOfSignals ==
    (ListingsReturned /\ NoPostFilter)
    => \A i \in 1..Len(RawOf) :
          /\ formatted.val[i].isGuestFavorite = PyBool(FavoriteSignal(RawOf[i]))
          /\ formatted.val[i].instantBook = PyBool(InstantSignal(RawOf[i]))
          /\ formatted.val[i].isHome = PyBool(HomeSignal(RawOf[i]))

\* a badge label is the one signal that fires for instantBook, beside explicit
\* fields that are false, and no signal of isHome fires
C25_Witness ==
    /\ ListingsReturned /\ NoPostFilter /\ Len(RawOf) = 1
    /\ Get(RawOf[1], "isInstantBookable") = PyBool(FALSE)
    /\ BadgeHolds(RawOf[1], T_INSTANT)
    /\ formatted.val[1].instantBook = PyBool(TRUE)
    /\ formatted.val[1].isGuestFavorite = PyBool(FALSE)
    /\ formatted.val[1].isHome = PyBool(FALSE)


\* an answer that makes the loop go on, and one that makes it break
Goes(r) == ~Failed(r) /\ r.listings # <<>> /\ HasCursor(r)
Stops(r) == ~Failed(r) /\ (r.listings = <<>> \/ ~HasCursor(r))

\* the loop is running after answers that all made it go on; the search has
\* returned after answers of which the last, and only the last, made it break
LoopExits ==
    /\ pc = "paging"
       => /\ outcome = NoOutcome /\ Len(responses) = page
          /\ \A i \in 1..page : Goes(responses[i])
    /\ (pc = "done" /\ outcome.kind = "returned")
       => /\ page >= 1 /\ Len(responses) = page
          /\ \A i \in 1..(page - 1) : Goes(responses[i])
          /\ Stops(responses[page])

\* C26: the loop of a search has no exit but a page with no listings or no
\* next-page cursor (or a failed page): while the pages come with listings
\* and a cursor the search fetches the next page and does not return, for as
\* many pages as the model follows (MaxPages); a search returns only after a
\* page that stops it.
C26_LoopRunsUntilStopPage ==
    /\ []LoopExits
    /\ (pc = "paging" /\ page < MaxPages) ~> (pc = "done" \/ page = MaxPages)

\* MaxPages pages were fetched, each with listings and a cursor, and the
\* search has not returned
C26_Witness ==
    /\ pc = "paging" /\ page = MaxPages /\ Len(requests) = MaxPages
    /\ \A i \in 1..MaxPages : Goes(responses[i])
    /\ outcome = NoOutcome


\* the asset URLs of the page in the order of their first appearance
FirstAppearances ==
    LET ix == SelectSeq([i \in 1..Len(net.urls) |-> i],
                        LAMBDA i : \A j \in 1..(i - 1) : net.urls[j] # net.urls[i])
    IN [k \in 1..Len(ix) |-> net.urls[ix[k]]]

\* the asset answers 200 and holds the marker
HoldsMarker(u) == net.asset[u].status = "200" /\ net.asset[u].marker # "None"

\* C27: after a fetch_live_hash call on a page that loaded, the assets
\* fetched are the first assets of the page in the order of their first
\* appearance, each once.  If one of the assets of the page answers 200 with
\* the marker, the assets fetched end with the first such asset, whatever the
\* assets before it answered, and its marker is returned; if none does, every
\* asset was fetched and the default is returned.
C27_ScanInOrderUntilFirstMatch ==
    (resolved # NotScanned /\ net.page = "ok")
    => /\ Len(resolved.fetched) <= Len(FirstAppearances)
       /\ resolved.fetched = SubSeq(FirstAppearances, 1, Len(resolved.fetched))
       /\ \A k \in 1..(Len(resolved.fetched) - 1) : ~HoldsMarker(resolved.fetched[k])
       /\ IF \E k \in 1..Len(FirstAppearances) : HoldsMarker(FirstAppearances[k])
          THEN /\ resolved.fetched # <<>>
               /\ HoldsMarker(resolved.fetched[Len(resolved.fetched)])
               /\ resolved.hash = net.asset[resolved.fetched[Len(resolved.fetched)]].marker
          ELSE /\ resolved.fetched = FirstAppearances
               /\ resolved.hash = DEFAULT_HASH

\* of three assets the first raised, the second held the marker and the third,
\* which holds another marker, was not fetched
C27_Witness ==
    /\ net.page = "ok" /\ net.urls = <<"a.js", "b.js", "c.js">>
    /\ net.asset["a.js"].status = "exception"
    /\ HoldsMarker("b.js") /\ HoldsMarker("c.js")
    /\ net.asset["b.js"].marker # net.asset["c.js"].marker
    /\ resolved.fetched = <<"a.js", "b.js">>
    /\ resolved.hash = net.asset["b.js"].marker


\* what params holds for the zoom, under zoom or zoom_level, and which of it
\* is a number
ZoomsGiven == {Get(params, k) : k \in {"zoom", "zoom_level"}} \ {PyNone}
IsNumber(z) == z.t \in {"int", "bool", "str"} /\ PyFloatOf(z).ok
BoxGiven == \A k \in {"ne_lat", "ne_long", "sw_lat", "sw_long"} : Get(params, k).t # "none"

\* max(12, min(z, 16)) of a number
Clamped(z) ==
    IF Above16(PyFloatOf(z)) THEN FloatOfInt(16)
    ELSE IF Below12(PyFloatOf(z)) THEN FloatOfInt(12)
    ELSE PyFloatOf(z)

\* C28: on the fallback path the zoom_value handed to the search is within
\* [12, 16]: with the four coordinates and a numeric zoom in params it is
\* max(12, min(zoom, 16)) of a zoom params holds; it is 12 when params holds
\* no zoom, or one that is no number, or lacks a coordinate; and a zoom that
\* is no number raises nothing.
C28_ZoomClamped ==
    (formatted.exc # "not_called" /\ ~UsingUrl)
    => /\ zoom_handed.ok /\ ~Below12(zoom_handed) /\ ~Above16(zoom_handed)
       /\ \/ /\ BoxGiven
             /\ \E z \in ZoomsGiven : IsNumber(z) /\ zoom_handed = Clamped(z)
          \/ /\ ~BoxGiven \/ ZoomsGiven = {} \/ (\E z \in ZoomsGiven : ~IsNumber(z))
             /\ zoom_handed = FloatOfInt(12)
       /\ (found.exc = "none" => formatted.exc = "none")


(***************************************************************************)
(* C29  Cursor chaining in search_from_url                                 *)
(***************************************************************************)
\* the cursors one request carries, in its two variants
CursorsOf(req) == {req.staysMapSearchRequestV2.cursor, req.staysSearchRequest.cursor}

\* what stays the same from page to page: key, filter list, currency, locale
\* and signature
PageConstants(req) ==
    <<req.api_key, req.staysMapSearchRequestV2.rawParams, req.staysSearchRequest.rawParams,
      req.currency, req.locale, req.url_hash, req.sha256Hash>>

\* C29: in one search_from_url call the first search_page request carries
\* the empty cursor, every later request carries exactly the nextPageCursor
\* of the response just before it, and the api key, the rawParams list, the
\* currency, the locale and the operation signature are the same in every
\* request of the search.
C29_CursorChain ==
    /\ requests # <<>> => CursorsOf(requests[1]) = {""}
    /\ \A i \in 2..Len(requests) : CursorsOf(requests[i]) = {responses[i - 1].nextPageCursor}
    /\ \A i \in 1..Len(requests) :
        /\ PageConstants(requests[i]) = PageConstants(requests[1])
        /\ requests[i].api_key = api_key
        /\ requests[i].url_hash = op_hash
        /\ requests[i].staysSearchRequest.rawParams = built.val

\* a search that went through three pages with a non-empty filter list,
\* each later request carrying the cursor handed out just before
C29_Witness ==
    /\ Len(requests) = 3
    /\ requests[1].staysSearchRequest.cursor = ""
    /\ requests[2].staysSearchRequest.cursor = "cursor_1"
    /\ requests[3].staysSearchRequest.cursor = "cursor_2"
    /\ requests[3].staysSearchRequest.rawParams # <<>>
    /\ searches = 2


(***************************************************************************)
(* C30  Explicit signature injection in search_from_url                    *)
(***************************************************************************)
\* the step that starts a search_from_url call
CallStarts == searches' = searches + 1

\* the caller of the current search passed a signature
HashPassed == searches > 0 /\ arg_hash \notin {"None", ""}

\* the cache was read (a value came back from get_op_hash) or populated
CacheTouched ==
    \/ cached_hash' # cached_hash
    \/ hashFetches' # hashFetches
    \/ hashReturns' # hashReturns
    \/ scan' # scan

\* C30: when search_from_url is called with a non-empty op_hash,
\* fetch_live_hash is not invoked, the process-wide _cached_hash is left as
\* it was (None stays None) and every page request of that search uses the
\* passed value; only a call without op_hash reads or populates the cache.
C30_PassedSignatureBypassesCache ==
    /\ [][/\ (CallStarts /\ arg_hash' \notin {"None", ""})
              => (~CacheTouched /\ op_hash' = arg_hash')
          /\ CacheTouched => (CallStarts /\ arg_hash' \in {"None", ""})]_vars
    /\ [](HashPassed => /\ op_hash = arg_hash
                        /\ \A i \in 1..Len(requests) :
                            /\ requests[i].url_hash = arg_hash
                            /\ requests[i].sha256Hash = arg_hash)

\* a first call with a passed signature went through two pages under that
\* signature and the cache is still empty, never fetched
C30_Witness ==
    /\ searches = 1
    /\ arg_hash = "caller_hash"
    /\ Len(requests) = 2
    /\ requests[2].url_hash = "caller_hash"
    /\ cached_hash = NoHash
    /\ hashFetches = 0

=============================================================================
